---- MODULE Spec2Model ----
(***************************************************************************)
(* Slot-filling dialogue engine of the restaurant booking agent.           *)
(*                                                                         *)
(* The repository holds several implementations of the same turn handler:  *)
(*   "simple"  backend/agent_simple.py         SimpleBookingAgent          *)
(*   "agent"   backend/agent.py                BookingAgent (LLM oracle)   *)
(*   "ollama"  backend/agent_ollama.py         BookingAgent (step driven)  *)
(*   "sollama" backend/agent_simple_ollama.py  SimpleBookingAgent          *)
(* One of them is chosen when the process starts (variable impl).          *)
(*                                                                         *)
(* Text.  A message is a sequence of whitespace separated tokens.  A token *)
(* is a word (letters only), a number with an optional ":mm" part and an   *)
(* optional attached am/pm, or a code (letters followed by digits), each   *)
(* optionally followed by a comma.  The regular expressions and keyword    *)
(* tests of the source are translated to this token grammar.               *)
(***************************************************************************)
EXTENDS Integers, Sequences, FiniteSets, TLC

VARIABLES impl, wd, sessions, turn, turns, script, probe, client, store, http, loop,
          memory

vars == <<impl, wd, sessions, turn, turns, script, probe, client, store, http, loop, memory>>

-----------------------------------------------------------------------------
(* Tokens *)

Word(s) == [k |-> "word", s |-> s, cap |-> FALSE, h |-> 0, m |-> -1, mer |-> "", comma |-> FALSE]

CapWord(s) == [k |-> "word", s |-> s, cap |-> TRUE, h |-> 0, m |-> -1, mer |-> "", comma |-> FALSE]

Num(h) == [k |-> "num", s |-> "", cap |-> FALSE, h |-> h, m |-> -1, mer |-> "", comma |-> FALSE]

Clock(h, m, mer) == [k |-> "num", s |-> "", cap |-> FALSE, h |-> h, m |-> m, mer |-> mer, comma |-> FALSE]

Code(s) == [k |-> "code", s |-> s, cap |-> TRUE, h |-> 0, m |-> -1, mer |-> "", comma |-> FALSE]

Comma(t) == [t EXCEPT !.comma = TRUE]

(* Number of characters of a word or code of the vocabulary. *)
Letters(s) ==
  CASE s \in {"a", "i"} -> 1
    [] s \in {"hi", "my", "at", "we", "to", "am", "is", "of"} -> 2
    [] s \in {"for", "can", "you", "try"} -> 3
    [] s \in {"john", "book", "like", "come", "with", "some", "free", "next", "name", "that"} -> 4
    [] s \in {"smith", "table", "would", "check", "party", "today", "again"} -> 5
    [] s \in {"people", "cancel", "change", "status", "please", "thanks", "guests", "friday", "sunday", "monday"} -> 6
    [] s \in {"booking", "friends", "abc1234", "weekend", "tonight"} -> 7
    [] s \in {"tomorrow", "saturday"} -> 8
    [] s \in {"reference", "available"} -> 9
    [] OTHER -> 0

(* The keywords of the source that occur in a vocabulary word as a         *)
(* substring (Python's "kw in text").                                      *)
KeywordsIn(s) ==
  CASE s = "booking" -> {"book"}
    [] s = "hi" -> {"hi"}
    [] s \in {"book", "table", "cancel", "change", "status", "check", "reference",
              "available", "free", "tomorrow", "today", "tonight", "weekend",
              "saturday", "sunday", "monday", "friday", "next"} -> {s}
    [] OTHER -> {}

(* kw in message.lower(), for a keyword of one word. *)
Contains(msg, kw) ==
  \E i \in 1..Len(msg) : msg[i].k = "word" /\ kw \in KeywordsIn(msg[i].s)

(* phrase in message.lower(), for a keyword of two words. *)
ContainsPhrase(msg, w1, w2) ==
  \E i \in 1..(Len(msg) - 1) :
     /\ msg[i].k = "word" /\ msg[i].s = w1 /\ ~msg[i].comma
     /\ msg[i + 1].k = "word" /\ msg[i + 1].s = w2

ContainsAny(msg, kws) == \E kw \in kws : Contains(msg, kw)

HasDigit(msg) == \E i \in 1..Len(msg) : msg[i].k \in {"num", "code"}

-----------------------------------------------------------------------------
(* Slot values.  Each slot has its own "absent" value (Python None / key   *)
(* not in the dict).                                                       *)

NoName == <<>>

NoDate == [canon |-> FALSE, off |-> -1, raw |-> <<>>]

NoTime == [h |-> -1, m |-> -1, secs |-> FALSE]

NoParty == -1

NoRef == ""

(* strftime('%Y-%m-%d') of today + off days *)
Ymd(off) == [canon |-> TRUE, off |-> off, raw |-> <<>>]

(* a date phrase handed back unparsed *)
RawDate(msg) == [canon |-> FALSE, off |-> 0, raw |-> msg]

(* f"{hour:02d}:{minute}" *)
HHMM(h, m) == [h |-> h, m |-> m, secs |-> FALSE]

(* f"{hour:02d}:{minute:02d}:00" *)
HHMMSS(h, m) == [h |-> h, m |-> m, secs |-> TRUE]

(* str.title() of a name *)
Title(name) == [i \in 1..Len(name) |-> [name[i] EXCEPT !.cap = TRUE]]

-----------------------------------------------------------------------------
(* Vocabulary of user messages *)

Tokens(id) ==
  CASE id = "hi" -> <<Word("hi")>>
    [] id = "John Smith" -> <<CapWord("john"), CapWord("smith")>>
    [] id = "tomorrow" -> <<Word("tomorrow")>>
    [] id = "7pm" -> <<Clock(7, -1, "pm")>>
    [] id = "4" -> <<Num(4)>>
    [] id = "John Smith, tomorrow, 7pm, 4 people" ->
         <<CapWord("john"), Comma(CapWord("smith")), Comma(Word("tomorrow")),
           Comma(Clock(7, -1, "pm")), Num(4), Word("people")>>
    [] id = "book a table for 4 tomorrow at 7pm" ->
         <<Word("book"), Word("a"), Word("table"), Word("for"), Num(4),
           Word("tomorrow"), Word("at"), Clock(7, -1, "pm")>>
    [] id = "book for John Smith, tomorrow 7pm 4 people" ->
         <<Word("book"), Word("for"), CapWord("john"), Comma(CapWord("smith")),
           Word("tomorrow"), Clock(7, -1, "pm"), Num(4), Word("people")>>
    [] id = "cancel my booking ABC1234" ->
         <<Word("cancel"), Word("my"), Word("booking"), Code("abc1234")>>
    [] id = "cancel ABC1234" -> <<Word("cancel"), Code("abc1234")>>
    [] id = "table for 25" -> <<Word("table"), Word("for"), Num(25)>>
    [] id = "book a table" -> <<Word("book"), Word("a"), Word("table")>>
    [] id = "we would like to come with some friends please thanks" ->
         <<Word("we"), Word("would"), Word("like"), Word("to"), Word("come"),
           Word("with"), Word("some"), Word("friends"), Word("please"), Word("thanks")>>
    [] id = "can you try that again" ->
         <<Word("can"), Word("you"), Word("try"), Word("that"), Word("again")>>

-----------------------------------------------------------------------------
(* Helpers on token sequences *)

(* a token that [A-Z][a-z]+ matches when case is ignored *)
IsNameWord(t) == t.k = "word" /\ Letters(t.s) >= 2

(* [A-Z][a-z]+(?:\s+[A-Z][a-z]+)* matched greedily from token i (re.I):    *)
(* the longest run of words joined by whitespace only; <<>> when no match  *)
NameRun(msg, i) ==
  LET ok(j) == \A x \in i..j : IsNameWord(msg[x]) /\ (x < j => ~msg[x].comma)
  IN IF i > Len(msg) \/ ~IsNameWord(msg[i]) THEN <<>>
     ELSE LET j == CHOOSE y \in i..Len(msg) : ok(y) /\ (y = Len(msg) \/ ~ok(y + 1))
          IN [x \in 1..(j - i + 1) |->
                IF x = j - i + 1 THEN [msg[i + x - 1] EXCEPT !.comma = FALSE]
                ELSE msg[i + x - 1]]

(* ^[A-Z][a-z]+(?:\s+[A-Z][a-z]+)*$ (re.I): the whole message is such a run *)
WholeNameRun(msg) ==
  IF \A x \in 1..Len(msg) : IsNameWord(msg[x]) /\ ~msg[x].comma THEN msg ELSE <<>>

(* the elements of a sequence *)
Range(seq) == { seq[i] : i \in 1..Len(seq) }

(* least element of a nonempty set of numbers *)
Least(S) == CHOOSE x \in S : \A y \in S : x <= y

(* today.weekday() is wd; days until the next weekday `target`, never 0 *)
DaysAhead(target) == IF target - wd <= 0 THEN target - wd + 7 ELSE target - wd

WeekdayNames == <<"monday", "tuesday", "wednesday", "thursday", "friday", "saturday", "sunday">>

-----------------------------------------------------------------------------
(* backend/tools.py : DateTimeParser *)

parse_date(msg) ==
  IF msg = <<>> THEN Ymd(0)
  ELSE IF Contains(msg, "today") THEN Ymd(0)
  ELSE IF Contains(msg, "tomorrow") THEN Ymd(1)
  ELSE IF Contains(msg, "weekend") \/ Contains(msg, "saturday") THEN Ymd(DaysAhead(5))
  ELSE IF Contains(msg, "sunday") THEN Ymd(DaysAhead(6))
  ELSE IF \E i \in 1..7 : Contains(msg, WeekdayNames[i])
       THEN LET i == Least({x \in 1..7 : Contains(msg, WeekdayNames[x])})
            IN Ymd(DaysAhead(i - 1) + (IF Contains(msg, "next") THEN 7 ELSE 0))
  ELSE RawDate(msg)

-----------------------------------------------------------------------------
(* Sessions, service results, responses *)

SessionIds == {"s1", "s2"}

NoIntent == "none"

EmptySlots ==
  [name |-> NoName, date |-> NoDate, time |-> NoTime, party_size |-> NoParty,
   booking_reference |-> NoRef, last_booking_reference |-> NoRef]

RequiredSlots == <<"name", "date", "time", "party_size">>

(* key in context and context[key] is not None *)
Present(ctx, f) ==
  CASE f = "name" -> ctx.name # NoName
    [] f = "date" -> ctx.date # NoDate
    [] f = "time" -> ctx.time # NoTime
    [] f = "party_size" -> ctx.party_size # NoParty
    [] f = "booking_reference" -> ctx.booking_reference # NoRef
    [] f = "last_booking_reference" -> ctx.last_booking_reference # NoRef

(* bool(context.get(key)): present and not 0 / "" *)
Truthy(ctx, f) == Present(ctx, f) /\ (f = "party_size" => ctx.party_size # 0)

(* What the booking service may answer to a call. *)
ServiceResults ==
  { [success |-> TRUE, booking_reference |-> "REF0001", booking_id |-> NoRef, available |-> TRUE, error |-> ""],
    [success |-> TRUE, booking_reference |-> NoRef, booking_id |-> NoRef, available |-> FALSE, error |-> ""],
    [success |-> FALSE, booking_reference |-> NoRef, booking_id |-> NoRef, available |-> FALSE, error |-> "401 Unauthorized"],
    [success |-> FALSE, booking_reference |-> NoRef, booking_id |-> NoRef, available |-> FALSE, error |-> "500 Server Error"] }

NoArgs == [name |-> NoName, date |-> NoDate, time |-> NoTime, party_size |-> NoParty, booking_reference |-> NoRef]

Call(op, args, result) == [op |-> op, args |-> args, result |-> result]

CreateArgs(ctx) ==
  [name |-> ctx.name, date |-> ctx.date, time |-> ctx.time,
   party_size |-> ctx.party_size, booking_reference |-> NoRef]

RefArgs(ref) == [NoArgs EXCEPT !.booking_reference = ref]

(* the date, time and party size a confirmation text shows; form is the   *)
(* format of the date ("iso" for %Y-%m-%d, "long" for %A, %B %d, %Y), a    *)
(* time shown without minutes has m = -1                                    *)
NoEcho == [date |-> NoDate, form |-> "", time |-> NoTime, party_size |-> NoParty]

(* response text: which template, the reference it shows, the service      *)
(* error text it quotes, the booking values it shows                       *)
Reply(kind) == [kind |-> kind, ref |-> NoRef, error |-> "", echo |-> NoEcho]

ReplyRef(kind, ref) == [kind |-> kind, ref |-> ref, error |-> "", echo |-> NoEcho]

ReplyError(kind, error) == [kind |-> kind, ref |-> NoRef, error |-> error, echo |-> NoEcho]

(* the "Your reservation is confirmed!" text *)
Confirmed(ref, date, form, time, party_size) ==
  [kind |-> "confirmed", ref |-> ref, error |-> "",
   echo |-> [date |-> date, form |-> form, time |-> time, party_size |-> party_size]]

(* info['time'].replace(':00', ''): "19:00:00" is shown as "19", "19:30:00" *)
(* as "19:30"                                                              *)
time_display(time) ==
  IF time.secs THEN [h |-> time.h, m |-> IF time.m = 0 THEN -1 ELSE time.m, secs |-> FALSE]
  ELSE IF time.m = 0 THEN [h |-> time.h, m |-> -1, secs |-> FALSE]
  ELSE time

(* the outcome of a handler: slots, service calls made, response *)
Outcome(ctx, calls, response) == [ctx |-> ctx, calls |-> calls, response |-> response]

-----------------------------------------------------------------------------
(* backend/agent_simple.py : SimpleBookingAgent *)

simple_date_words ==
  {"today", "tonight", "tomorrow", "weekend", "saturday", "sunday", "monday",
   "tuesday", "wednesday", "thursday", "friday"}

simple_parse_date_from_text(msg) ==
  IF Contains(msg, "today") \/ Contains(msg, "tonight") THEN Ymd(0)
  ELSE IF Contains(msg, "tomorrow") THEN Ymd(1)
  ELSE IF Contains(msg, "weekend") \/ Contains(msg, "saturday") THEN Ymd(DaysAhead(5))
  ELSE IF Contains(msg, "sunday") THEN Ymd(DaysAhead(6))
  ELSE IF Contains(msg, "friday") THEN Ymd(DaysAhead(4))
  ELSE IF \E i \in 1..7 : Contains(msg, WeekdayNames[i])
       THEN Ymd(DaysAhead(Least({x \in 1..7 : Contains(msg, WeekdayNames[x])}) - 1))
  ELSE parse_date(msg)

(* name_patterns[0]: (?:my name is|i am|...)\s+(name run); where the name  *)
(* run may start, leftmost first                                           *)
simple_name_starts(msg) ==
  { i + 3 : i \in { x \in 1..(Len(msg) - 3) :
                      /\ msg[x].k = "word" /\ msg[x].s = "my" /\ ~msg[x].comma
                      /\ msg[x + 1].k = "word" /\ msg[x + 1].s = "name" /\ ~msg[x + 1].comma
                      /\ msg[x + 2].k = "word" /\ msg[x + 2].s = "is" /\ ~msg[x + 2].comma } }
  \cup
  { i + 2 : i \in { x \in 1..(Len(msg) - 2) :
                      /\ msg[x].k = "word" /\ msg[x].s = "i" /\ ~msg[x].comma
                      /\ msg[x + 1].k = "word" /\ msg[x + 1].s = "am" /\ ~msg[x + 1].comma } }

(* lines 104-123: the customer_name the message yields, or NoName *)
simple_extract_name(msg) ==
  LET starts == { i \in simple_name_starts(msg) : NameRun(msg, i) # <<>> }
      byPattern ==
        IF starts # {}
        THEN LET name == NameRun(msg, Least(starts))
             IN IF Len(name) <= 4 THEN Title(name) ELSE NoName
        ELSE IF WholeNameRun(msg) # <<>>
        THEN IF Len(msg) <= 4 THEN Title(msg) ELSE NoName
        ELSE NoName
      first == msg[1]
      justAName ==
        /\ Len(msg) >= 1 /\ Len(msg) <= 3 /\ ~HasDigit(msg)
        /\ \/ first.cap
           \/ \A i \in 1..Len(msg) : msg[i].k = "word" /\ ~msg[i].cap
  IN IF justAName THEN Title(msg) ELSE byPattern

(* lines 129-145: \b(\d{1,2})(?::(\d{2}))?\s*(am|pm)?\b, leftmost match *)
simple_extract_time(msg) ==
  LET hits == { i \in 1..Len(msg) : msg[i].k = "num" /\ msg[i].h <= 99 }
  IN IF hits = {} THEN NoTime
     ELSE LET t == msg[Least(hits)]
              minute == IF t.m >= 0 THEN t.m ELSE 0
              hour == IF t.mer = "pm" /\ t.h < 12 THEN t.h + 12
                      ELSE IF t.mer = "am" /\ t.h = 12 THEN 0
                      ELSE IF t.mer = "" /\ 1 <= t.h /\ t.h <= 11
                           THEN (IF t.h <= 5 THEN t.h + 12 ELSE t.h)
                      ELSE t.h
          IN HHMM(hour, minute)

simple_unit_words == {"people", "person", "persons", "guest", "guests", "pax"}

(* a token that \b(\d+)\b matches from its first digit, and the number *)
IsCount(t) == t.k = "num" /\ t.mer = ""

(* the digits that directly precede the next token *)
LastDigits(t) == IF t.m >= 0 THEN t.m ELSE t.h

IsWord(msg, i, w) == i >= 1 /\ i <= Len(msg) /\ msg[i].k = "word" /\ msg[i].s = w /\ ~msg[i].comma

(* lines 147-158: the first pattern that matches decides; no range check *)
simple_extract_party_size(msg) ==
  LET p1 == { i \in 1..(Len(msg) - 1) :
                /\ IsCount(msg[i]) /\ ~msg[i].comma
                /\ msg[i + 1].k = "word" /\ msg[i + 1].s \in simple_unit_words }
      p2 == { i \in 2..Len(msg) : IsWord(msg, i - 1, "for") /\ IsCount(msg[i]) }
      p3 == { i \in 2..Len(msg) :
                /\ IsCount(msg[i])
                /\ \/ IsWord(msg, i - 1, "table")
                   \/ IsWord(msg, i - 1, "for") /\ IsWord(msg, i - 2, "table") }
      p4 == { i \in 3..Len(msg) :
                IsWord(msg, i - 2, "party") /\ IsWord(msg, i - 1, "of") /\ IsCount(msg[i]) }
  IN IF p1 # {} THEN LastDigits(msg[Least(p1)])
     ELSE IF p2 # {} THEN msg[Least(p2)].h
     ELSE IF p3 # {} THEN msg[Least(p3)].h
     ELSE IF p4 # {} THEN msg[Least(p4)].h
     ELSE NoParty

(* lines 160-164: \b([A-Z0-9]{6,8})\b on message.upper(), leftmost match *)
simple_extract_booking_id(msg) ==
  LET hits == { i \in 1..Len(msg) :
                  /\ msg[i].k \in {"word", "code"}
                  /\ Letters(msg[i].s) >= 6 /\ Letters(msg[i].s) <= 8 }
  IN IF hits = {} THEN NoRef ELSE msg[Least(hits)].s

(* _extract_info: the slots a message yields; absent values are not keys *)
simple_extract_info(msg) ==
  [name |-> simple_extract_name(msg),
   date |-> IF ContainsAny(msg, simple_date_words) THEN simple_parse_date_from_text(msg) ELSE NoDate,
   time |-> simple_extract_time(msg),
   party_size |-> simple_extract_party_size(msg),
   booking_reference |-> simple_extract_booking_id(msg),
   last_booking_reference |-> NoRef]

(* _detect_intent, lines 79-88: the keywords of each explicit intent *)
simple_intent_keywords ==
  [check_availability |-> {"availability", "available", "free", "open"},
   create_booking |-> {"book", "reserve", "reservation", "table"},
   cancel_booking |-> {"cancel", "cancellation"},
   update_booking |-> {"change", "modify", "update", "reschedule"},
   get_booking |-> {"check", "status", "details", "reference"}]

(* _detect_intent with the update test placed before the cancel test *)
simple_detect_intent_update_first(msg, last_intent) ==
  IF ContainsAny(msg, {"availability", "available", "free", "open"}) THEN "check_availability"
  ELSE IF ContainsAny(msg, {"book", "reserve", "reservation", "table"}) THEN "create_booking"
  ELSE IF ContainsAny(msg, {"change", "modify", "update", "reschedule"}) THEN "update_booking"
  ELSE IF ContainsAny(msg, {"cancel", "cancellation"}) THEN "cancel_booking"
  ELSE IF ContainsAny(msg, {"check", "status", "details", "reference"})
          \/ ContainsPhrase(msg, "my", "booking") THEN "get_booking"
  ELSE IF last_intent # NoIntent /\ last_intent # "general" /\ Len(msg) < 10 THEN last_intent
  ELSE "general"

(* _detect_intent with the length test len(message.split()) <= 10 *)
simple_detect_intent_ten_tokens(msg, last_intent) ==
  IF ContainsAny(msg, {"availability", "available", "free", "open"}) THEN "check_availability"
  ELSE IF ContainsAny(msg, {"book", "reserve", "reservation", "table"}) THEN "create_booking"
  ELSE IF ContainsAny(msg, {"cancel", "cancellation"}) THEN "cancel_booking"
  ELSE IF ContainsAny(msg, {"change", "modify", "update", "reschedule"}) THEN "update_booking"
  ELSE IF ContainsAny(msg, {"check", "status", "details", "reference"})
          \/ ContainsPhrase(msg, "my", "booking") THEN "get_booking"
  ELSE IF last_intent # NoIntent /\ last_intent # "general" /\ Len(msg) <= 10 THEN last_intent
  ELSE "general"

(* _detect_intent *)
simple_detect_intent(msg, last_intent) ==
  IF ContainsAny(msg, {"availability", "available", "free", "open"}) THEN "check_availability"
  ELSE IF ContainsAny(msg, {"book", "reserve", "reservation", "table"}) THEN "create_booking"
  ELSE IF ContainsAny(msg, {"cancel", "cancellation"}) THEN "cancel_booking"
  ELSE IF ContainsAny(msg, {"change", "modify", "update", "reschedule"}) THEN "update_booking"
  ELSE IF ContainsAny(msg, {"check", "status", "details", "reference"})
          \/ ContainsPhrase(msg, "my", "booking") THEN "get_booking"
  ELSE IF last_intent # NoIntent /\ last_intent # "general" /\ Len(msg) < 10 THEN last_intent
  ELSE "general"

(* _handle_check_availability *)
simple_handle_check_availability(ctx, r) ==
  IF ~Truthy(ctx, "date") THEN Outcome(ctx, <<>>, Reply("ask_date"))
  ELSE LET args == [NoArgs EXCEPT !.date = ctx.date, !.time = ctx.time,
                                  !.party_size = IF Present(ctx, "party_size") THEN ctx.party_size ELSE 2]
           calls == <<Call("check_availability", args, r)>>
       IN IF r.success
          THEN Outcome(ctx, calls, Reply(IF r.available THEN "availability" ELSE "no_availability"))
          ELSE IF r.error = "401 Unauthorized"
          THEN Outcome(ctx, calls, Reply("availability_unauthorized"))
          ELSE Outcome(ctx, calls, Reply("availability_failed"))

(* _handle_create_booking without the check for missing fields *)
simple_handle_create_booking_unguarded(ctx, r) ==
  LET calls == <<Call("create_booking", CreateArgs(ctx), r)>>
  IN IF r.success
     THEN Outcome(ctx, calls,
                  Confirmed(IF r.booking_reference # NoRef THEN r.booking_reference
                            ELSE IF r.booking_id # NoRef THEN r.booking_id
                            ELSE "PENDING",
                            ctx.date, "iso", ctx.time, ctx.party_size))
     ELSE IF r.error = "401 Unauthorized"
     THEN Outcome(ctx, calls, Reply("noted"))
     ELSE Outcome(ctx, calls, Reply("create_failed"))

(* _handle_create_booking *)
simple_handle_create_booking(ctx, r) ==
  LET missing == SelectSeq(RequiredSlots, LAMBDA f : ~Present(ctx, f))
  IN IF missing # <<>> THEN Outcome(ctx, <<>>, Reply("ask_" \o missing[1]))
     ELSE LET calls == <<Call("create_booking", CreateArgs(ctx), r)>>
          IN IF r.success
             THEN Outcome(ctx, calls,
                          Confirmed(IF r.booking_reference # NoRef THEN r.booking_reference
                                    ELSE IF r.booking_id # NoRef THEN r.booking_id
                                    ELSE "PENDING",
                                    ctx.date, "iso", ctx.time, ctx.party_size))
             ELSE IF r.error = "401 Unauthorized"
             THEN Outcome(ctx, calls, Reply("noted"))
             ELSE Outcome(ctx, calls, Reply("create_failed"))

(* _handle_get_booking *)
simple_handle_get_booking(ctx, r) ==
  IF ~Truthy(ctx, "booking_reference") THEN Outcome(ctx, <<>>, Reply("ask_reference"))
  ELSE LET calls == <<Call("get_booking", RefArgs(ctx.booking_reference), r)>>
       IN Outcome(ctx, calls,
                  ReplyRef(IF r.success THEN "details" ELSE "get_failed", ctx.booking_reference))

(* _handle_update_booking *)
simple_handle_update_booking(ctx, r) ==
  IF ~Truthy(ctx, "booking_reference") THEN Outcome(ctx, <<>>, Reply("ask_reference"))
  ELSE IF ~(Truthy(ctx, "date") \/ Truthy(ctx, "time") \/ Truthy(ctx, "party_size"))
  THEN Outcome(ctx, <<>>, ReplyRef("ask_changes", ctx.booking_reference))
  ELSE LET args == [NoArgs EXCEPT !.booking_reference = ctx.booking_reference,
                                  !.date = ctx.date, !.time = ctx.time,
                                  !.party_size = IF Truthy(ctx, "party_size") THEN ctx.party_size ELSE NoParty]
           calls == <<Call("update_booking", args, r)>>
       IN Outcome(ctx, calls,
                  ReplyRef(IF r.success THEN "updated" ELSE "update_failed", ctx.booking_reference))

(* _handle_cancel_booking *)
simple_handle_cancel_booking(ctx, r) ==
  IF ~Truthy(ctx, "booking_reference") THEN Outcome(ctx, <<>>, Reply("ask_reference"))
  ELSE LET calls == <<Call("cancel_booking", RefArgs(ctx.booking_reference), r)>>
       IN Outcome(ctx, calls,
                  ReplyRef(IF r.success THEN "cancelled" ELSE "cancel_failed", ctx.booking_reference))

(* _execute_intent *)
simple_execute_intent(intent, ctx, r) ==
  CASE intent = "check_availability" -> simple_handle_check_availability(ctx, r)
    [] intent = "create_booking" -> simple_handle_create_booking(ctx, r)
    [] intent = "get_booking" -> simple_handle_get_booking(ctx, r)
    [] intent = "update_booking" -> simple_handle_update_booking(ctx, r)
    [] intent = "cancel_booking" -> simple_handle_cancel_booking(ctx, r)
    [] OTHER -> Outcome(ctx, <<>>, Reply("menu"))

(* for key, value in extracted_info.items(): if value is not None: ...     *)
simple_update_context(ctx, info) ==
  [f \in DOMAIN ctx |-> IF Present(info, f) THEN info[f] ELSE ctx[f]]

-----------------------------------------------------------------------------
(* The turn *)

MaxTurns == 6

simple_history_cap == 10

NewSession == [ctx |-> EmptySlots, last_intent |-> NoIntent, step |-> "greeting", history |-> <<>>]

(* history entries: who wrote it and in which turn of the session *)
Entry(role, history) ==
  [role |-> role,
   seq |-> IF history = <<>> THEN 1
           ELSE IF role = "assistant" THEN history[Len(history)].seq
           ELSE history[Len(history)].seq + 1]

(* history[-cap:] when longer than cap *)
Trim(history, cap) ==
  IF Len(history) > cap THEN SubSeq(history, Len(history) - cap + 1, Len(history)) ELSE history

(* the session of an id: the stored one, or the one created for a new id *)
SessionOf(sid) == IF sid \in DOMAIN sessions THEN sessions[sid] ELSE NewSession

Put(sid, session) == [x \in DOMAIN sessions \cup {sid} |-> IF x = sid THEN session ELSE sessions[x]]

Observe(sid, id, intent, merged, out) ==
  [sid |-> sid, msg |-> id, intent |-> intent, merged |-> merged,
   calls |-> out.calls, response |-> out.response]

NoTurn == Observe("", "", NoIntent, EmptySlots, Outcome(EmptySlots, <<>>, Reply("")))

(* SimpleBookingAgent.process_message on a session: the session after the *)
(* turn, the intent, the slots after the merge and the handler's outcome   *)
simple_turn(session, id, r) ==
  LET msg == Tokens(id)
      history1 == Append(session.history, Entry("user", session.history))
      ctx1 == simple_update_context(session.ctx, simple_extract_info(msg))
      intent == simple_detect_intent(msg, session.last_intent)
      out == simple_execute_intent(intent, ctx1, r)
      history2 == Append(history1, Entry("assistant", history1))
  IN [session |-> [ctx |-> out.ctx, last_intent |-> intent, step |-> session.step,
                   history |-> Trim(history2, simple_history_cap)],
      intent |-> intent, merged |-> ctx1, out |-> out]

(* SimpleBookingAgent.process_message *)
simple_process_message(sid, id, r) ==
  \E t \in {simple_turn(SessionOf(sid), id, r)} :
     /\ sessions' = Put(sid, t.session)
     /\ turn' = Observe(sid, id, t.intent, t.merged, t.out)

-----------------------------------------------------------------------------
(* backend/agent.py : BookingAgent.  The language model is an oracle: what *)
(* _understand_message returns is any decoded JSON object, or              *)
(* {"intent": "unclear"} when the call or the decoding fails.              *)

JohnSmith == <<CapWord("john"), CapWord("smith")>>

Understanding(intent, name, date, time, party_size, ref) ==
  [object |-> TRUE, intent |-> intent, name |-> name, date |-> date, time |-> time,
   party_size |-> party_size, booking_reference |-> ref, last_booking_reference |-> NoRef]

(* except Exception: return {"intent": "unclear"} *)
OracleFailed == Understanding("unclear", NoName, NoDate, NoTime, NoParty, NoRef)

(* json.loads(content) decoded, but to a list, a string, a number or None: *)
(* _understand_message returns it as it is                                 *)
OracleNonObject ==
  [Understanding("unclear", NoName, NoDate, NoTime, NoParty, NoRef) EXCEPT !.object = FALSE]

OracleOutputs ==
  { OracleFailed,
    OracleNonObject,
    Understanding("greeting", NoName, NoDate, NoTime, NoParty, NoRef),
    Understanding("make_booking", NoName, NoDate, NoTime, NoParty, NoRef),
    Understanding("make_booking", JohnSmith, Ymd(1), HHMM(19, 0), 4, NoRef),
    Understanding("make_booking", NoName, Ymd(1), HHMM(19, 0), NoParty, NoRef),
    Understanding("make_booking", NoName, NoDate, NoTime, 25, NoRef),
    Understanding("make_booking", NoName, NoDate, NoTime, 0, NoRef),
    Understanding("provide_info", JohnSmith, NoDate, NoTime, NoParty, NoRef),
    Understanding("provide_info", NoName, Ymd(2), NoTime, NoParty, NoRef),
    Understanding("provide_info", NoName, NoDate, HHMM(20, 30), NoParty, NoRef),
    Understanding("provide_info", NoName, NoDate, NoTime, 4, NoRef),
    Understanding("check_availability", NoName, Ymd(1), NoTime, NoParty, NoRef),
    Understanding("check_availability", NoName, NoDate, NoTime, NoParty, NoRef),
    Understanding("check_booking", NoName, NoDate, NoTime, NoParty, "abc1234"),
    Understanding("check_booking", NoName, NoDate, NoTime, NoParty, NoRef),
    Understanding("cancel_booking", NoName, NoDate, NoTime, NoParty, "abc1234"),
    Understanding("cancel_booking", NoName, NoDate, NoTime, NoParty, NoRef),
    Understanding("update_booking", NoName, NoDate, NoTime, NoParty, NoRef) }

(* lines 250-253: for key, value in understanding.items(): skip None *)
agent_update_context(ctx, understanding) ==
  [f \in DOMAIN ctx |-> IF Present(understanding, f) THEN understanding[f] ELSE ctx[f]]

(* lines 158-163: a time of the form %H:%M:%S is shown as %-I:%M %p, any   *)
(* other text as it is                                                      *)
agent_formatted_time(time) == IF time.secs THEN [time EXCEPT !.secs = FALSE] ELSE time

(* _generate_response with api_result = None or a service result *)
agent_generate_response(intent, ctx, called, r) ==
  LET missing == SelectSeq(RequiredSlots, LAMBDA f : ~Truthy(ctx, f))
      ok == called /\ r.success
  IN IF intent = "greeting" THEN Reply("greeting")
     ELSE IF intent = "check_availability" /\ ok
     THEN Reply(IF r.available THEN "availability" ELSE "no_availability")
     ELSE IF intent = "booking_confirmed" /\ ok
     THEN Confirmed(IF r.booking_reference # NoRef THEN r.booking_reference ELSE "N/A",
                    ctx.date, IF ctx.date.canon THEN "long" ELSE "iso",
                    agent_formatted_time(ctx.time), ctx.party_size)
     ELSE IF intent \in {"make_booking", "provide_info"}
     THEN (IF Len(missing) = 4 THEN Reply("ask_all")
           ELSE IF Len(missing) = 1 THEN Reply("ask_" \o missing[1])
           ELSE IF Len(missing) > 0 THEN Reply("ask_list")
           ELSE Reply("have_all"))
     ELSE IF intent = "check_booking" /\ ~Truthy(ctx, "booking_reference") THEN Reply("ask_reference")
     ELSE IF intent = "check_booking" /\ ok THEN ReplyRef("details", r.booking_reference)
     ELSE IF intent = "cancel_booking" /\ ~Truthy(ctx, "booking_reference") THEN Reply("ask_reference")
     ELSE IF intent = "cancel_booking" /\ ok THEN ReplyRef("cancelled", ctx.booking_reference)
     ELSE IF intent = "update_booking" /\ ~Truthy(ctx, "booking_reference") THEN Reply("ask_reference")
     ELSE IF intent = "update_booking" THEN Reply("ask_changes")
     ELSE Reply("menu")

(* the context after create_booking answered, cleared whatever the answer *)
agent_context_cleared_after_create(ctx, r) ==
  [EmptySlots EXCEPT !.last_booking_reference = r.booking_reference]

(* lines 282-291: the context after create_booking answered; on success    *)
(* session['context'] = {'last_booking_reference': booking_ref}            *)
agent_context_after_create(ctx, r) ==
  IF r.success THEN [EmptySlots EXCEPT !.last_booking_reference = r.booking_reference]
  ELSE ctx

(* lines 257-314: the branch on intent *)
agent_handle_intent(intent, ctx, r) ==
  CASE intent = "check_availability" ->
         IF Truthy(ctx, "date")
         THEN Outcome(ctx,
                      <<Call("check_availability",
                             [NoArgs EXCEPT !.date = ctx.date,
                                            !.party_size = IF Present(ctx, "party_size")
                                                           THEN ctx.party_size ELSE 2], r)>>,
                      agent_generate_response(intent, ctx, TRUE, r))
         ELSE Outcome(ctx, <<>>, agent_generate_response(intent, ctx, FALSE, r))
    [] intent \in {"make_booking", "provide_info"} ->
         IF \A i \in 1..4 : Truthy(ctx, RequiredSlots[i])
         THEN LET calls == <<Call("create_booking", CreateArgs(ctx), r)>>
                  ctx2 == IF r.booking_reference # NoRef
                          THEN [ctx EXCEPT !.last_booking_reference = r.booking_reference]
                          ELSE ctx
              IN Outcome(agent_context_after_create(ctx, r), calls,
                         IF r.success
                         THEN agent_generate_response("booking_confirmed", ctx2, TRUE, r)
                         ELSE ReplyError("create_failed", r.error))
         ELSE Outcome(ctx, <<>>, agent_generate_response(intent, ctx, FALSE, r))
    [] intent = "check_booking" ->
         IF Truthy(ctx, "booking_reference")
         THEN Outcome(ctx, <<Call("get_booking", RefArgs(ctx.booking_reference), r)>>,
                      agent_generate_response(intent, ctx, TRUE, r))
         ELSE Outcome(ctx, <<>>, agent_generate_response(intent, ctx, FALSE, r))
    [] intent = "cancel_booking" ->
         LET ctx2 == IF ~Truthy(ctx, "booking_reference") /\ Truthy(ctx, "last_booking_reference")
                     THEN [ctx EXCEPT !.booking_reference = ctx.last_booking_reference]
                     ELSE ctx
         IN IF Truthy(ctx2, "booking_reference")
            THEN Outcome(ctx2, <<Call("cancel_booking", RefArgs(ctx2.booking_reference), r)>>,
                         agent_generate_response(intent, ctx2, TRUE, r))
            ELSE Outcome(ctx2, <<>>, agent_generate_response(intent, ctx2, FALSE, r))
    [] OTHER -> Outcome(ctx, <<>>, agent_generate_response(intent, ctx, FALSE, r))

agent_history_cap == 20

(* an exception that leaves process_message instead of a response text *)
Raised(exception) == [kind |-> "raise", ref |-> NoRef, error |-> exception, echo |-> NoEcho]

(* BookingAgent.process_message.  Line 248, understanding.get('intent',    *)
(* 'unclear'), raises AttributeError on a value that is not a dict; the    *)
(* session exists by then and holds the user's message.                    *)
agent_turn(session, understanding, r) ==
  LET history1 == Append(session.history, Entry("user", session.history))
      intent == understanding.intent
      ctx1 == agent_update_context(session.ctx, understanding)
      out == agent_handle_intent(intent, ctx1, r)
      history2 == Append(history1, Entry("assistant", history1))
  IN IF ~understanding.object
     THEN [session |-> [session EXCEPT !.history = history1],
           intent |-> NoIntent, merged |-> session.ctx,
           out |-> Outcome(session.ctx, <<>>, Raised("AttributeError"))]
     ELSE [session |-> [ctx |-> out.ctx, last_intent |-> session.last_intent,
                        step |-> session.step,
                        history |-> Trim(history2, agent_history_cap)],
           intent |-> intent, merged |-> ctx1, out |-> out]

agent_process_message(sid, id, understanding, r) ==
  \E t \in {agent_turn(SessionOf(sid), understanding, r)} :
     /\ sessions' = Put(sid, t.session)
     /\ turn' = Observe(sid, id, t.intent, t.merged, t.out)

-----------------------------------------------------------------------------
(* backend/agent_ollama.py : BookingAgent (conversation_step driven).      *)
(* The ReAct agent_executor is the language-model oracle: its turn is a    *)
(* response written by the model; tool calls the model decides on are not  *)
(* part of the dialogue engine.                                            *)

(* consecutive tokens spelling the words ws, starting at token i *)
WordsAt(msg, i, ws) ==
  /\ i >= 1 /\ i + Len(ws) - 1 <= Len(msg)
  /\ \A x \in 1..Len(ws) :
        /\ msg[i + x - 1].k = "word" /\ msg[i + x - 1].s = ws[x]
        /\ (x < Len(ws) => ~msg[i + x - 1].comma)

ContainsWords(msg, ws) == \E i \in 1..Len(msg) : WordsAt(msg, i, ws)

ollama_greeting_words == {"hello", "hi", "hey"}

ollama_is_greeting(msg) ==
  \/ ContainsAny(msg, ollama_greeting_words)
  \/ \E w \in {"morning", "afternoon", "evening"} : ContainsWords(msg, <<"good", w>>)

ollama_date_words ==
  {"saturday", "sunday", "monday", "tuesday", "wednesday", "thursday", "friday",
   "tomorrow", "today", "weekend"}

ollama_booking_words == {"book", "reserve", "table", "reservation"}

(* _extract_date_from_message; NoDate is None *)
ollama_extract_date_from_message(msg) ==
  IF Contains(msg, "today") THEN Ymd(0)
  ELSE IF Contains(msg, "tomorrow") THEN Ymd(1)
  ELSE IF Contains(msg, "weekend") THEN Ymd(DaysAhead(5))
  ELSE IF \E i \in 1..7 : Contains(msg, WeekdayNames[i])
       THEN LET i == Least({x \in 1..7 : Contains(msg, WeekdayNames[x])})
                days_ahead == ((i - 1) - wd) % 7
            IN Ymd(IF days_ahead = 0 THEN 7 ELSE days_ahead)
  ELSE NoDate

ollama_name_stop_words ==
  {"today", "tomorrow", "monday", "tuesday", "wednesday", "thursday", "friday",
   "saturday", "sunday"}

(* the three name_patterns, each as the group of its leftmost match *)
ollama_name_candidates(msg) ==
  LET after(ws) == { i + Len(ws) : i \in { x \in 1..Len(msg) : WordsAt(msg, x, ws) /\ ~msg[x + Len(ws) - 1].comma } }
      hits1 == { i \in after(<<"my", "name", "is">>) \cup after(<<"i", "am">>) \cup after(<<"call", "me">>) :
                   NameRun(msg, i) # <<>> }
      hits3 == { i \in after(<<"for">>) \cup after(<<"under", "the", "name", "of">>) :
                   NameRun(msg, i) # <<>> }
  IN << IF hits1 # {} THEN NameRun(msg, Least(hits1)) ELSE <<>>,
        WholeNameRun(msg),
        IF hits3 # {} THEN NameRun(msg, Least(hits3)) ELSE <<>> >>

(* lines 386-391: the first pattern whose match holds no date word *)
ollama_extract_name(msg) ==
  LET cands == ollama_name_candidates(msg)
      good == { p \in 1..3 : cands[p] # <<>> /\ ~ContainsAny(cands[p], ollama_name_stop_words) }
  IN IF good = {} THEN NoName ELSE cands[Least(good)]

(* meridiem arithmetic of lines 410-413 *)
ollama_hour(h, mer) ==
  IF mer = "pm" /\ h < 12 THEN h + 12
  ELSE IF mer = "am" /\ h = 12 THEN 0
  ELSE h

(* \b(\d{1,2})\b: a number of one or two digits standing alone *)
IsBareNumber(t) == t.k = "num" /\ t.mer = "" /\ t.m < 0 /\ t.h <= 99

ollama_unit_words == {"peopl", "people", "guest", "guests", "person", "persons"}

FollowedByUnit(msg, i) ==
  ~msg[i].comma /\ i < Len(msg) /\ msg[i + 1].k = "word" /\ msg[i + 1].s \in ollama_unit_words

(* the three time_patterns, each as <<hour, minute>> of its leftmost      *)
(* match, <<-1, -1>> when it does not match                                *)
ollama_time_candidates(msg) ==
  LET hits1 == { i \in 1..Len(msg) : msg[i].k = "num" /\ msg[i].m >= 0 /\ msg[i].h <= 99 }
      hits2 == { i \in 1..Len(msg) : msg[i].k = "num" /\ msg[i].mer # "" }
      hits3 == { i \in 1..Len(msg) :
                   /\ msg[i].k = "num" /\ msg[i].mer = "" /\ msg[i].h <= 99
                   /\ (msg[i].m < 0 => ~FollowedByUnit(msg, i)) }
      none == <<-1, -1>>
  IN << IF hits1 # {} THEN LET t == msg[Least(hits1)] IN <<ollama_hour(t.h, t.mer), t.m>> ELSE none,
        IF hits2 # {}
        THEN LET t == msg[Least(hits2)]
             IN <<ollama_hour(IF t.m >= 0 THEN t.m ELSE t.h, t.mer), 0>>
        ELSE none,
        IF hits3 # {} THEN <<msg[Least(hits3)].h, 0>> ELSE none >>

(* lines 403-419 / 604-621: the first pattern that yields an hour in 10..23 *)
ollama_extract_time_from_message(msg) ==
  LET cands == ollama_time_candidates(msg)
      good == { p \in 1..3 : 10 <= cands[p][1] /\ cands[p][1] <= 23 }
  IN IF good = {} THEN NoTime ELSE HHMMSS(cands[Least(good)][1], cands[Least(good)][2])

(* _extract_booking_info_from_message, party_patterns: the number each     *)
(* pattern's leftmost match captures, -1 when it does not match            *)
ollama_info_party_candidates(msg) ==
  LET hits1 == { i \in 1..Len(msg) : IsCount(msg[i]) /\ FollowedByUnit(msg, i) }
      hits2 == { i \in 2..Len(msg) :
                   /\ IsCount(msg[i])
                   /\ \/ WordsAt(msg, i - 2, <<"party", "of">>)
                      \/ WordsAt(msg, i - 2, <<"table", "for">>)
                      \/ WordsAt(msg, i - 2, <<"reservation", "for">>)
                   /\ ~msg[i - 1].comma }
      hits3 == { i \in 1..Len(msg) : IsCount(msg[i]) }
  IN << IF hits1 # {} THEN LastDigits(msg[Least(hits1)]) ELSE -1,
        IF hits2 # {} THEN msg[Least(hits2)].h ELSE -1,
        IF hits3 # {} THEN LastDigits(msg[Least(hits3)]) ELSE -1 >>

ollama_first_in_range(cands) ==
  LET good == { p \in 1..Len(cands) : 1 <= cands[p] /\ cands[p] <= 20 }
  IN IF good = {} THEN NoParty ELSE cands[Least(good)]

(* _extract_booking_info_from_message; the key 'date' is always set *)
ollama_extract_booking_info_from_message(msg) ==
  [name |-> ollama_extract_name(msg),
   date |-> ollama_extract_date_from_message(msg),
   time |-> ollama_extract_time_from_message(msg),
   party_size |-> ollama_first_in_range(ollama_info_party_candidates(msg)),
   booking_reference |-> NoRef,
   last_booking_reference |-> NoRef]

(* _is_likely_name_input: ^[A-Z][a-z]+(?:\s+[A-Z][a-z]+)*$, case sensitive *)
ollama_is_capitalized_name(msg) ==
  \A i \in 1..Len(msg) : IsNameWord(msg[i]) /\ msg[i].cap /\ ~msg[i].comma

ollama_name_indicators == << <<"my", "name", "is">>, <<"i", "am">>, <<"call", "me">>, <<"this", "is">> >>

ollama_is_likely_name_input(msg) ==
  \/ ollama_is_capitalized_name(msg)
  \/ \E n \in 1..Len(ollama_name_indicators) : ContainsWords(msg, ollama_name_indicators[n])

(* _extract_name_from_message *)
ollama_extract_name_from_message(msg) ==
  LET rest(n) == LET ws == ollama_name_indicators[n]
                     last == CHOOSE i \in 1..Len(msg) :
                               WordsAt(msg, i, ws) /\ \A j \in (i + 1)..Len(msg) : ~WordsAt(msg, j, ws)
                 IN SubSeq(msg, last + Len(ws), Len(msg))
      found == { n \in 1..Len(ollama_name_indicators) :
                   ContainsWords(msg, ollama_name_indicators[n]) /\ rest(n) # <<>> }
  IN IF ollama_is_capitalized_name(msg) THEN msg
     ELSE IF found # {} THEN Title(rest(Least(found)))
     ELSE Title(msg)

ollama_is_likely_date_input(msg) == ContainsAny(msg, ollama_date_words)

(* _is_likely_time_input: \d{1,2}:\d{2} | \d{1,2}\s*[ap]m | \d{1,2}$ *)
ollama_is_likely_time_input(msg) ==
  \/ \E i \in 1..Len(msg) : msg[i].k = "num" /\ (msg[i].m >= 0 \/ msg[i].mer # "")
  \/ LET t == msg[Len(msg)] IN ~t.comma /\ (t.k = "code" \/ (t.k = "num" /\ t.mer = ""))

(* _is_likely_party_size_input *)
ollama_is_likely_party_size_input(msg) ==
  \/ \E i \in 1..Len(msg) : msg[i].k \in {"num", "code"} /\ msg[i].mer = "" /\ FollowedByUnit(msg, i)
  \/ \E i \in 3..Len(msg) : WordsAt(msg, i - 2, <<"party", "of">>) /\ ~msg[i - 1].comma /\ msg[i].k = "num"
  \/ \E i \in 2..Len(msg) : WordsAt(msg, i - 1, <<"for">>) /\ ~msg[i - 1].comma /\ msg[i].k = "num"
  \/ Len(msg) = 1 /\ IsCount(msg[1]) /\ msg[1].m < 0 /\ ~msg[1].comma

(* _extract_party_size_from_message *)
ollama_party_candidates(msg) ==
  LET hits1 == { i \in 1..Len(msg) : IsCount(msg[i]) /\ FollowedByUnit(msg, i) }
      hits2 == { i \in 3..Len(msg) :
                   WordsAt(msg, i - 2, <<"party", "of">>) /\ ~msg[i - 1].comma /\ msg[i].k = "num" }
      hits3 == { i \in 2..Len(msg) :
                   WordsAt(msg, i - 1, <<"for">>) /\ ~msg[i - 1].comma /\ msg[i].k = "num" }
  IN << IF hits1 # {} THEN LastDigits(msg[Least(hits1)]) ELSE -1,
        IF hits2 # {} THEN msg[Least(hits2)].h ELSE -1,
        IF hits3 # {} THEN msg[Least(hits3)].h ELSE -1,
        IF Len(msg) = 1 /\ IsCount(msg[1]) /\ msg[1].m < 0 /\ ~msg[1].comma THEN msg[1].h ELSE -1 >>

ollama_extract_party_size_from_message(msg) == ollama_first_in_range(ollama_party_candidates(msg))

(* info['name'], info['time'], info['party_size'] raise KeyError when the *)
(* key was never set; the handler's except turns that into an apology      *)
HasAllKeys(info) == \A i \in 1..4 : Present(info, RequiredSlots[i])

(* _create_booking_direct *)
ollama_create_booking_direct(info, r) ==
  IF ~HasAllKeys(info) THEN <<>>
  ELSE <<Call("create_booking", CreateArgs(info), r)>>

ollama_create_booking_reply(info, r) ==
  IF ~HasAllKeys(info) THEN Reply("create_error")
  ELSE IF r.success
  THEN Confirmed(r.booking_id, info.date, "iso", time_display(info.time), info.party_size)
  ELSE ReplyError("create_failed", r.error)

(* _check_availability_direct *)
ollama_check_availability_reply(r) ==
  IF r.success THEN Reply(IF r.available THEN "availability" ELSE "no_availability")
  ELSE Reply("availability_failed")

(* all(booking_info.values()): every key that was set holds a truthy value *)
ollama_all_values(info) == Present(info, "date")

(* BookingAgent.process_message, lines 135-246, as the session after the   *)
(* turn and the outcome of the turn                                        *)
ollama_turn(session, msg, r) ==
  LET info == session.ctx
      step == session.step
      avail == /\ ContainsAny(msg, {"availability", "available", "check", "times"})
               /\ ContainsAny(msg, ollama_date_words)
      booking_info == ollama_extract_booking_info_from_message(msg)
      name == ollama_extract_name_from_message(msg)
      date == ollama_extract_date_from_message(msg)
      time == ollama_extract_time_from_message(msg)
      party_size == ollama_extract_party_size_from_message(msg)
      filled == [info EXCEPT !.party_size = party_size]
  IN IF ollama_is_greeting(msg)
     THEN [session |-> [session EXCEPT !.step = "greeting"],
           out |-> Outcome(info, <<>>, Reply("menu")), intent |-> "greeting"]
     ELSE IF avail
     THEN [session |-> session,
           out |-> IF date # NoDate
                   THEN Outcome(info, <<Call("check_availability", [NoArgs EXCEPT !.date = date], r)>>,
                                ollama_check_availability_reply(r))
                   ELSE Outcome(info, <<>>, Reply("ask_date")),
           intent |-> "check_availability"]
     ELSE IF ContainsAny(msg, ollama_booking_words)
     THEN IF ollama_all_values(booking_info)
          THEN [session |-> session,
                out |-> Outcome(booking_info, ollama_create_booking_direct(booking_info, r),
                                ollama_create_booking_reply(booking_info, r)),
                intent |-> "create_booking"]
          ELSE [session |-> [session EXCEPT !.step = "asking_name"],
                out |-> Outcome(info, <<>>, Reply("ask_name")), intent |-> "create_booking"]
     ELSE IF step = "asking_name" /\ ollama_is_likely_name_input(msg)
     THEN [session |-> [session EXCEPT !.ctx.name = name, !.step = "asking_date"],
           out |-> Outcome([info EXCEPT !.name = name], <<>>, Reply("ask_date")),
           intent |-> "provide_info"]
     ELSE IF step = "asking_date" /\ ollama_is_likely_date_input(msg)
     THEN [session |-> IF date # NoDate
                       THEN [session EXCEPT !.ctx.date = date, !.step = "asking_time"]
                       ELSE session,
           out |-> Outcome(IF date # NoDate THEN [info EXCEPT !.date = date] ELSE info,
                           <<>>, Reply("ask_time")),
           intent |-> "provide_info"]
     ELSE IF step = "asking_time" /\ ollama_is_likely_time_input(msg)
     THEN [session |-> IF time # NoTime
                       THEN [session EXCEPT !.ctx.time = time, !.step = "asking_party_size"]
                       ELSE session,
           out |-> Outcome(IF time # NoTime THEN [info EXCEPT !.time = time] ELSE info,
                           <<>>, Reply("ask_party_size")),
           intent |-> "provide_info"]
     ELSE IF step = "asking_party_size" /\ ollama_is_likely_party_size_input(msg)
             /\ party_size # NoParty
     THEN [session |-> [session EXCEPT !.ctx = filled],
           out |-> Outcome(filled, ollama_create_booking_direct(filled, r),
                           ollama_create_booking_reply(filled, r)),
           intent |-> "provide_info"]
     ELSE [session |-> session, out |-> Outcome(info, <<>>, Reply("llm")), intent |-> "llm"]

(* BookingAgent.process_message *)
ollama_process_message(sid, id, r) ==
  \E t \in {ollama_turn(SessionOf(sid), Tokens(id), r)} :
     /\ sessions' = Put(sid, t.session)
     /\ turn' = Observe(sid, id, t.intent, t.out.ctx, t.out)

-----------------------------------------------------------------------------
(* backend/agent_simple_ollama.py : SimpleBookingAgent *)

(* _extract_booking_info: the same patterns as agent_ollama's              *)
(* _extract_booking_info_from_message, but 'date' is a key only when found *)
sollama_extract_booking_info(msg) == ollama_extract_booking_info_from_message(msg)

(* session['booking_info'].update(extracted_info) *)
sollama_update(info, extracted) ==
  [f \in DOMAIN info |-> IF Present(extracted, f) THEN extracted[f] ELSE info[f]]

(* _ask_for_missing_info: `'name' in missing` tests the list of phrases    *)
(* ("your name", "the date", ...) for the element 'name', which it never   *)
(* holds, so only the first and the last branch are ever taken             *)
sollama_ask_for_missing_info(info) ==
  LET phrases == [name |-> "your name", date |-> "the date", time |-> "the time",
                  party_size |-> "number of people"]
      missing == { phrases[RequiredSlots[i]] : i \in { x \in 1..4 : ~Truthy(info, RequiredSlots[x]) } }
  IN IF Cardinality(missing) = 4 THEN Reply("ask_name")
     ELSE IF "name" \in missing THEN Reply("ask_name")
     ELSE IF "date" \in missing THEN Reply("ask_date")
     ELSE IF "time" \in missing THEN Reply("ask_time")
     ELSE IF "party_size" \in missing THEN Reply("ask_party_size")
     ELSE Reply("need_list")

(* _generate_response (with _create_booking and _check_availability) *)
sollama_generate_response(all_info, r) ==
  IF \A i \in 1..4 : Truthy(all_info, RequiredSlots[i])
  THEN Outcome(all_info, <<Call("create_booking", CreateArgs(all_info), r)>>,
               IF r.success
               THEN Confirmed(r.booking_id, all_info.date, "iso", time_display(all_info.time),
                              all_info.party_size)
               ELSE ReplyError("create_failed", r.error))
  ELSE IF Truthy(all_info, "date")
  THEN Outcome(all_info, <<Call("check_availability", [NoArgs EXCEPT !.date = all_info.date], r)>>,
               IF r.success THEN Reply(IF r.available THEN "availability" ELSE "no_availability")
               ELSE Reply("availability_failed"))
  ELSE Outcome(all_info, <<>>, sollama_ask_for_missing_info(all_info))

(* SimpleBookingAgent.process_message on a session *)
sollama_turn(session, id, r) ==
  LET extracted_info == sollama_extract_booking_info(Tokens(id))
      booking_info == sollama_update(session.ctx, extracted_info)
      out == sollama_generate_response(sollama_update(booking_info, extracted_info), r)
      history1 == Append(session.history, Entry("user", session.history))
  IN [session |-> [session EXCEPT !.ctx = booking_info, !.history = history1],
      intent |-> "create_booking", merged |-> booking_info, out |-> out]

(* SimpleBookingAgent.process_message *)
sollama_process_message(sid, id, r) ==
  \E t \in {sollama_turn(SessionOf(sid), id, r)} :
     /\ sessions' = Put(sid, t.session)
     /\ turn' = Observe(sid, id, t.intent, t.merged, t.out)

-----------------------------------------------------------------------------
(* One conversation: a single caller, session "s1" *)

Messages ==
  {"hi", "John Smith", "tomorrow", "7pm", "4", "book a table for 4 tomorrow at 7pm",
   "book for John Smith, tomorrow 7pm 4 people", "cancel my booking ABC1234",
   "cancel ABC1234", "table for 25", "can you try that again",
   "we would like to come with some friends please thanks"}

AgentMessages == {"book a table for 4 tomorrow at 7pm"}

Implementations == {"simple", "agent", "ollama", "sollama"}

(* what a scripted caller has said in each session, and the arguments of  *)
(* the create_booking calls its turns made                                 *)
NoScript == [sid \in SessionIds |-> [said |-> <<>>, created |-> <<>>]]

(* no call of the booking client under observation *)
(* the event loop before a request has arrived: no task, nothing running;  *)
(* met holds the pairs <<i, j>> of tasks of which i was first resumed while *)
(* j was waiting                                                           *)
NoLoop == [tasks |-> <<>>, running |-> 0, met |-> {}]

NoClient == [op |-> "", args |-> NoArgs, transport |-> "", done |-> FALSE, raised |-> "",
             request |-> <<>>, success |-> FALSE, error |-> ""]

(* no request answered yet by the HTTP endpoints *)
NoHttp == [route |-> "", given |-> "", status |-> 0, session_id |-> "", detail |-> ""]

(* an input of the intent classifier and the intent it returned *)
NoProbe == [msg |-> <<>>, last_intent |-> NoIntent, intent |-> NoIntent]

Init ==
  /\ impl \in Implementations
  /\ wd \in {5}
  /\ sessions = <<>>
  /\ turn = NoTurn
  /\ turns = 0
  /\ script = NoScript
  /\ client = NoClient
  /\ loop = NoLoop
  /\ memory = <<>>
  /\ store = <<>>
  /\ http = NoHttp
  /\ probe = NoProbe

(* the service answers only the turns that call it *)
NoResult == [success |-> FALSE, booking_reference |-> NoRef, booking_id |-> NoRef, available |-> FALSE, error |-> ""]

Answers(calls) == IF calls # <<>> THEN ServiceResults ELSE {NoResult}

simple_calls(sid, id) ==
  simple_execute_intent(simple_detect_intent(Tokens(id), SessionOf(sid).last_intent),
                        simple_update_context(SessionOf(sid).ctx, simple_extract_info(Tokens(id))),
                        NoResult).calls

TurnSimple(sid, id) ==
  /\ impl = "simple"
  /\ turns < MaxTurns
  /\ \E r \in Answers(simple_calls(sid, id)) : simple_process_message(sid, id, r)
  /\ turns' = turns + 1
  /\ UNCHANGED <<impl, wd, script, probe, client, memory, loop, store, http>>

agent_calls(sid, understanding) ==
  IF ~understanding.object THEN <<>>
  ELSE agent_handle_intent(understanding.intent,
                           agent_update_context(SessionOf(sid).ctx, understanding), NoResult).calls

TurnAgent(sid, id, understanding) ==
  /\ impl = "agent"
  /\ turns < MaxTurns
  /\ \E r \in Answers(agent_calls(sid, understanding)) :
        agent_process_message(sid, id, understanding, r)
  /\ turns' = turns + 1
  /\ UNCHANGED <<impl, wd, script, probe, client, memory, loop, store, http>>

ollama_calls(sid, id) == ollama_turn(SessionOf(sid), Tokens(id), NoResult).out.calls

TurnOllama(sid, id) ==
  /\ impl = "ollama"
  /\ turns < MaxTurns
  /\ \E r \in Answers(ollama_calls(sid, id)) : ollama_process_message(sid, id, r)
  /\ turns' = turns + 1
  /\ UNCHANGED <<impl, wd, script, probe, client, memory, loop, store, http>>

sollama_calls(sid, id) ==
  sollama_generate_response(
    sollama_update(SessionOf(sid).ctx, sollama_extract_booking_info(Tokens(id))), NoResult).calls

TurnSollama(sid, id) ==
  /\ impl = "sollama"
  /\ turns < MaxTurns
  /\ \E r \in Answers(sollama_calls(sid, id)) : sollama_process_message(sid, id, r)
  /\ turns' = turns + 1
  /\ UNCHANGED <<impl, wd, script, probe, client, memory, loop, store, http>>

Next ==
  \/ \E id \in Messages : TurnSimple("s1", id)
  \/ \E id \in Messages : TurnOllama("s1", id)
  \/ \E id \in Messages : TurnSollama("s1", id)
  \/ \E id \in AgentMessages, u \in OracleOutputs : TurnAgent("s1", id, u)

Spec == Init /\ [][Next]_vars

-----------------------------------------------------------------------------
(* Two callers of one agent: session "s1" gives the four values one per    *)
(* turn, session "s2" gives them in one message; either may first ask to   *)
(* book.  The language-model agent of agent.py is left out: what it        *)
(* extracts is the oracle's choice.                                        *)

SlotMessages == {"John Smith", "tomorrow", "7pm", "4"}

SplitScript == <<"John Smith", "tomorrow", "7pm", "4">>

WholeMessage == "John Smith, tomorrow, 7pm, 4 people"

Opener == "book a table"

InitSplit ==
  /\ impl \in {"simple", "ollama", "sollama"}
  /\ wd \in {5}
  /\ sessions = <<>>
  /\ turn = NoTurn
  /\ turns = 0
  /\ script = NoScript
  /\ client = NoClient
  /\ loop = NoLoop
  /\ memory = <<>>
  /\ store = <<>>
  /\ http = NoHttp
  /\ probe = NoProbe

calls_of(sid, id) ==
  CASE impl = "simple" -> simple_calls(sid, id)
    [] impl = "ollama" -> ollama_calls(sid, id)
    [] impl = "sollama" -> sollama_calls(sid, id)

process_message(sid, id, r) ==
  CASE impl = "simple" -> simple_process_message(sid, id, r)
    [] impl = "ollama" -> ollama_process_message(sid, id, r)
    [] impl = "sollama" -> sollama_process_message(sid, id, r)

Created(calls) ==
  LET made == SelectSeq(calls, LAMBDA c : c.op = "create_booking")
  IN [i \in 1..Len(made) |-> made[i].args]

Say(sid, id) ==
  /\ \E r \in Answers(calls_of(sid, id)) : process_message(sid, id, r)
  /\ script' = [script EXCEPT ![sid] = [said |-> Append(@.said, id),
                                        created |-> @.created \o Created(turn'.calls)]]
  /\ turns' = turns + 1
  /\ UNCHANGED <<impl, wd, probe, client, memory, loop, store, http>>

Said(sid, id) == \E i \in 1..Len(script[sid].said) : script[sid].said[i] = id

(* either caller may open with a request to book; "s1" then gives each of  *)
(* the four values once, in any order; "s2" gives them in one message      *)
CanSay(sid, id) ==
  \/ id = Opener /\ script[sid].said = <<>>
  \/ sid = "s1" /\ id \in SlotMessages /\ ~Said("s1", id)
  \/ sid = "s2" /\ id = WholeMessage /\ ~Said("s2", id)

NextSplit ==
  \E sid \in SessionIds, id \in SlotMessages \cup {Opener, WholeMessage} :
     CanSay(sid, id) /\ Say(sid, id)

SpecSplit == InitSplit /\ [][NextSplit]_vars

-----------------------------------------------------------------------------
(* The intent classifier of agent_simple.py on its own: a message of a few *)
(* words, each a keyword of some intent or none, or a long message without *)
(* keywords, and a last intent the classifier can have returned before.    *)

MaxLen == 2

IntentWords ==
  {"available", "book", "cancel", "change", "check", "status", "reference",
   "my", "booking", "john", "hi"}

RECURSIVE WordsOfLength(_)
WordsOfLength(n) ==
  IF n = 0 THEN {<<>>}
  ELSE { Append(m, Word(w)) : m \in WordsOfLength(n - 1), w \in IntentWords }

LongMessage == Tokens("we would like to come with some friends please thanks")

IntentMessages ==
  UNION { WordsOfLength(n) : n \in 1..MaxLen }
    \cup {LongMessage, SubSeq(LongMessage, 1, Len(LongMessage) - 1)}

(* the values session['last_intent'] takes: None, or a value _detect_intent returns *)
LastIntents ==
  {NoIntent, "general", "check_availability", "create_booking", "cancel_booking",
   "update_booking", "get_booking"}

InitIntent ==
  /\ impl = "simple"
  /\ wd \in {5}
  /\ sessions = <<>>
  /\ turn = NoTurn
  /\ turns = 0
  /\ script = NoScript
  /\ client = NoClient
  /\ loop = NoLoop
  /\ memory = <<>>
  /\ store = <<>>
  /\ http = NoHttp
  /\ probe \in { [msg |-> m, last_intent |-> l, intent |-> NoIntent] :
                    m \in IntentMessages, l \in LastIntents }

Classify ==
  /\ probe.intent = NoIntent
  /\ probe' = [probe EXCEPT !.intent = simple_detect_intent(probe.msg, probe.last_intent)]
  /\ UNCHANGED <<impl, wd, sessions, turn, turns, script, client, memory, loop, store, http>>

SpecIntent == InitIntent /\ [][Classify]_vars

-----------------------------------------------------------------------------
(* Properties *)

CreateCalls == { i \in 1..Len(turn.calls) : turn.calls[i].op = "create_booking" }

AllFour(ctx) == \A i \in 1..4 : Present(ctx, RequiredSlots[i])

Succeeded == \E i \in CreateCalls : turn.calls[i].result.success

Failed == \E i \in CreateCalls : ~turn.calls[i].result.success

(* C2: after a turn in which create_booking returned success, the          *)
(* session's step is greeting and its slots hold none of name, date, time  *)
(* and party_size (BookingAgent of agent.py and SimpleBookingAgent of      *)
(* agent_simple.py)                                                        *)
C2_ClearedAfterSuccess ==
  (impl \in {"agent", "simple"} /\ Succeeded) =>
     /\ sessions[turn.sid].step = "greeting"
     /\ \A i \in 1..4 : ~Present(sessions[turn.sid].ctx, RequiredSlots[i])

(* the intents whose handler dispatches create_booking *)
CreateIntents == {"create_booking", "make_booking", "provide_info"}

(* after a failed create_booking the four slots of the session are those   *)
(* the call was made with                                                  *)
C3_SlotsKept ==
  (impl \in {"agent", "simple"} /\ Failed) =>
     \A i \in CreateCalls : CreateArgs(sessions[turn.sid].ctx) = turn.calls[i].args

(* a turn of the same session that follows a failed create_booking, brings *)
(* no new slot value and is handled by the booking handler, calls          *)
(* create_booking again with the same four values                          *)
C3_RetryStep ==
  (/\ impl \in {"agent", "simple"} /\ Failed
   /\ turn'.sid = turn.sid
   /\ turn'.merged = sessions[turn.sid].ctx
   /\ turn'.intent \in CreateIntents) =>
     \E i \in 1..Len(turn'.calls) :
        /\ turn'.calls[i].op = "create_booking"
        /\ turn'.calls[i].args = CreateArgs(sessions[turn.sid].ctx)

(* C3: when create_booking returns success = false the turn leaves name,   *)
(* date, time and party_size as they were at dispatch, and a next turn     *)
(* that enters no slot dispatches create_booking again with them           *)
C3_FailureKeepsSlots == []C3_SlotsKept /\ [][C3_RetryStep]_vars

(* a failed create_booking whose four values are still in the session *)
C3_Witness == impl = "agent" /\ Failed /\ AllFour(sessions[turn.sid].ctx)

(* C4: a party-size candidate n of a message is stored if and only if      *)
(* 1 <= n <= 20, so a stored party_size is always within 1..20             *)
(* (SimpleBookingAgent of agent_simple.py)                                 *)
C4_PartySizeInRange ==
  impl = "simple" =>
    \A sid \in DOMAIN sessions :
       Present(sessions[sid].ctx, "party_size") => sessions[sid].ctx.party_size \in 1..20

(* C5: a stored slot is not replaced by a later turn whose intent does not *)
(* imply replacement; in particular a turn whose message is only a date    *)
(* word or only a bare number leaves the stored name and the stored time   *)
(* as they were (SimpleBookingAgent of agent_simple.py)                    *)
C5_StoredSlotsKept ==
  [][(/\ impl = "simple"
      /\ turn'.msg \in {"tomorrow", "4"}
      /\ turn'.intent # "update_booking"
      /\ turn'.sid \in DOMAIN sessions) =>
        LET old == sessions[turn'.sid].ctx
            new == sessions'[turn'.sid].ctx
        IN /\ Present(old, "name") => new.name = old.name
           /\ Present(old, "time") => new.time = old.time]_vars

(* C6: "John Smith", "tomorrow", "7pm", "4" given one per turn leave the   *)
(* same four slots, and make the same create_booking calls, as the one     *)
(* message "John Smith, tomorrow, 7pm, 4 people" (SimpleBookingAgent of    *)
(* agent_simple.py; with or without a preceding "book a table")            *)
C6_SplitEqualsWhole ==
  \A pre \in {<<>>, <<Opener>>} :
    (/\ impl = "simple"
     /\ script["s1"].said = pre \o SplitScript
     /\ script["s2"].said = pre \o <<WholeMessage>>) =>
       /\ CreateArgs(sessions["s1"].ctx) = CreateArgs(sessions["s2"].ctx)
       /\ script["s1"].created = script["s2"].created

(* the message holds a keyword of the explicit intent c *)
Matches(msg, c) ==
  /\ c \in DOMAIN simple_intent_keywords
  /\ \/ ContainsAny(msg, simple_intent_keywords[c])
     \/ c = "get_booking" /\ ContainsPhrase(msg, "my", "booking")

Matched(msg) == { c \in DOMAIN simple_intent_keywords : Matches(msg, c) }

(* the first intent of a list of intents that the message matches *)
FirstMatch(order, msg) == order[Least({ i \in 1..Len(order) : Matches(msg, order[i]) })]

ClaimedOrder ==
  <<"greeting", "check_availability", "create_booking", "get_booking", "update_booking",
    "cancel_booking", "provide_info", "unclear">>

CodeOrder ==
  <<"check_availability", "create_booking", "cancel_booking", "update_booking", "get_booking">>

Classified == probe.intent # NoIntent

(* C7 as stated: a message that matches keywords of several intents is     *)
(* classified as the first of them in the order greeting,                  *)
(* check_availability, create_booking, get_booking, update_booking,        *)
(* cancel_booking, provide_info, unclear                                   *)
C7_ClaimedOrder ==
  (Classified /\ Cardinality(Matched(probe.msg)) >= 2) =>
     probe.intent = FirstMatch(ClaimedOrder, probe.msg)

(* C7 amended: a message that matches keywords of several intents is       *)
(* classified as the first of them in the order check_availability,        *)
(* create_booking, cancel_booking, update_booking, get_booking             *)
C7_CodeOrder ==
  (Classified /\ Cardinality(Matched(probe.msg)) >= 2) =>
     probe.intent = FirstMatch(CodeOrder, probe.msg)

(* a message with a cancel keyword and a get_booking keyword, classified *)
C7_Witness ==
  /\ Classified
  /\ Matched(probe.msg) = {"cancel_booking", "get_booking"}
  /\ probe.intent = "cancel_booking"

(* C9: a message without intent keyword and with fewer than 10 tokens is   *)
(* classified as the session's last intent when there is one and it is not *)
(* general; any other message without intent keyword is classified general *)
C9_Continuation ==
  (Classified /\ Matched(probe.msg) = {}) =>
     probe.intent = IF Len(probe.msg) < 10 /\ probe.last_intent \notin {NoIntent, "general"}
                    THEN probe.last_intent
                    ELSE "general"

(* nine tokens without keyword, classified as the last intent *)
C9_Witness ==
  /\ Classified
  /\ Matched(probe.msg) = {}
  /\ Len(probe.msg) = 9
  /\ probe.last_intent = "create_booking"
  /\ probe.intent = "create_booking"

(* C8: a message with a cancel trigger and a reference, "cancel my booking *)
(* ABC1234", sent while the booking pipeline is collecting slots, is       *)
(* handled as cancel_booking: cancel_booking is called with that reference *)
(* and the four slots stay as they were (SimpleBookingAgent of             *)
(* agent_simple.py, where the pipeline is a last intent create_booking     *)
(* with a slot still missing)                                              *)
C8_CancelPreempts ==
  [][(/\ impl = "simple"
      /\ turn'.msg = "cancel my booking ABC1234"
      /\ turn'.sid \in DOMAIN sessions
      /\ sessions[turn'.sid].last_intent = "create_booking"
      /\ ~AllFour(sessions[turn'.sid].ctx)) =>
        /\ turn'.intent = "cancel_booking"
        /\ \E i \in 1..Len(turn'.calls) :
              /\ turn'.calls[i].op = "cancel_booking"
              /\ turn'.calls[i].args = RefArgs("abc1234")
        /\ CreateArgs(sessions'[turn'.sid].ctx) = CreateArgs(sessions[turn'.sid].ctx)]_vars

(* the first of name, date, time, party_size that the slots do not hold *)
FirstMissing(ctx) ==
  RequiredSlots[Least({ i \in 1..4 : ~Truthy(ctx, RequiredSlots[i]) })]

(* C10: a turn of the booking pipeline that does not know all four slots   *)
(* and calls no service answers with the prompt for the first missing      *)
(* field in the order name, date, time, party_size (SimpleBookingAgent of  *)
(* agent_simple_ollama.py, where every turn is a pipeline turn)            *)
C10_AsksFirstMissing ==
  (/\ impl = "sollama"
   /\ turn # NoTurn
   /\ \E i \in 1..4 : ~Truthy(turn.merged, RequiredSlots[i])
   /\ turn.calls = <<>>) =>
     turn.response.kind = "ask_" \o FirstMissing(turn.merged)

-----------------------------------------------------------------------------
(* Intents other than booking and the one slot each needs *)

NonBookingIntents ==
  {"check_availability", "get_booking", "check_booking", "update_booking", "cancel_booking"}

RequiredSlotOf(intent) == IF intent = "check_availability" THEN "date" ELSE "booking_reference"

(* the slot the handler reads is there: agent.py's cancel branch falls     *)
(* back on last_booking_reference                                          *)
HasRequiredSlot(intent, ctx) ==
  \/ Truthy(ctx, RequiredSlotOf(intent))
  \/ intent = "cancel_booking" /\ impl = "agent" /\ Truthy(ctx, "last_booking_reference")

AskFor(slot) == IF slot = "date" THEN "ask_date" ELSE "ask_reference"

C11_Step ==
  (turns' = turns + 1 /\ turn'.intent \in NonBookingIntents) =>
     /\ turn'.calls # <<>> => HasRequiredSlot(turn'.intent, turn'.merged)
     /\ ~HasRequiredSlot(turn'.intent, turn'.merged) =>
          /\ turn'.calls = <<>>
          /\ turn'.response.kind = AskFor(RequiredSlotOf(turn'.intent))
          /\ sessions'[turn'.sid].step = SessionOf(turn'.sid).step

(* C11: a turn of the language-model agent (agent.py) classified as a      *)
(* non-booking intent calls the booking service only when the intent's     *)
(* required slot is present (date for check_availability, booking          *)
(* reference for get, update and cancel); when the slot is absent the turn *)
(* asks for it, makes no service call and leaves the step unchanged.       *)
C11_NonBookingAsks == [][impl = "agent" => C11_Step]_vars

-----------------------------------------------------------------------------
(* C12: no exception crosses the turn boundary: for every message, session *)
(* state, oracle output (non-object or malformed JSON included) and        *)
(* booking-service result, process_message returns a response text; it     *)
(* does not raise.                                                         *)
C12_NoException == turn.response.kind # "raise"

-----------------------------------------------------------------------------
(* the turn's call of the language model failed (raised, timed out, or     *)
(* answered text that is not JSON)                                         *)
OracleFailedTurn == impl = "agent" /\ turn.intent = OracleFailed.intent

(* slots the deterministic rules of agent_simple.py read from the message *)
InMessage(id) ==
  { f \in {"date", "time", "party_size"} : Present(simple_extract_info(Tokens(id)), f) }

(* C13: when the language-model oracle times out, raises or returns output *)
(* that cannot be decoded, the turn still extracts the entities of the     *)
(* message by the deterministic rules and merges them into the slots: no   *)
(* slot value present in the message is lost.                              *)
C13_FallbackExtracts ==
  (OracleFailedTurn /\ turn.msg = "book a table for 4 tomorrow at 7pm") =>
     \A f \in InMessage(turn.msg) : Present(sessions[turn.sid].ctx, f)

-----------------------------------------------------------------------------
(* the turn called the booking service and a call answered success = false *)
ServiceFailed == \E i \in 1..Len(turn.calls) : ~turn.calls[i].result.success

(* the failure texts that name the action that failed *)
FailureReplies ==
  {"availability_failed", "availability_unauthorized", "create_failed", "get_failed",
   "update_failed", "cancel_failed"}

(* C14: when a booking-service call returns success = false, the response  *)
(* is a failure message specific to the action, it does not contain the    *)
(* service's error text, and the session's slots are preserved.            *)
C14_FriendlyFailure ==
  (impl = "agent" /\ ServiceFailed) =>
     /\ turn.response.kind \in FailureReplies
     /\ turn.response.error = ""
     /\ sessions[turn.sid].ctx = turn.merged

-----------------------------------------------------------------------------
(* backend/booking_client.py : BookingAPIClient.  One call of one          *)
(* operation: the form it sends and what it hands back, for each way the   *)
(* HTTP request can end.                                                   *)

NoForm ==
  [VisitDate |-> NoDate, VisitTime |-> NoTime, PartySize |-> NoParty,
   FirstName |-> <<>>, Surname |-> <<>>, bookingReference |-> NoRef]

(* if len(time.split(':')) == 2: time = f"{time}:00" *)
client_with_seconds(time) == [time EXCEPT !.secs = TRUE]

(* the form data (or the reference in the URL) each operation sends; an    *)
(* absent argument is None or a keyword that was not passed                *)
client_form(op, args) ==
  CASE op = "check_availability" ->
         [NoForm EXCEPT !.VisitDate = args.date,
                        !.PartySize = IF args.party_size \in {NoParty, 0} THEN 2 ELSE args.party_size]
    [] op = "create_booking" ->
         [NoForm EXCEPT !.VisitDate = args.date,
                        !.VisitTime = client_with_seconds(args.time),
                        !.PartySize = args.party_size,
                        !.FirstName = IF args.name = <<>> THEN <<>> ELSE <<Head(args.name)>>,
                        !.Surname = IF args.name = <<>> THEN <<>> ELSE Tail(args.name)]
    [] op = "update_booking" ->
         [NoForm EXCEPT !.bookingReference = args.booking_reference,
                        !.VisitDate = args.date,
                        !.VisitTime = IF args.time = NoTime THEN NoTime
                                      ELSE client_with_seconds(args.time),
                        !.PartySize = args.party_size]
    [] OTHER -> [NoForm EXCEPT !.bookingReference = args.booking_reference]

(* how the request ends: a 2xx answer with a JSON body, a 2xx answer whose *)
(* body is not JSON, an error status (raise_for_status), a connection      *)
(* error or timeout of the requests library, an exception that is not a    *)
(* requests.exceptions.RequestException                                    *)
Transports == {"ok", "bad_json", "http_error", "connection_error", "timeout", "other_exception"}

Returned(success, error) == [raised |-> "", success |-> success, error |-> error]

Propagated(exception) == [raised |-> exception, success |-> FALSE, error |-> ""]

(* try: ... except requests.exceptions.RequestException as e: return       *)
(* {'success': False, 'error': str(e)}.  response.json() on a body that is *)
(* not JSON raises a RequestException in recent versions of requests and a *)
(* plain ValueError in older ones; cancel_booking does not read the body.  *)
client_results(op, transport) ==
  CASE transport = "ok" -> {Returned(TRUE, "")}
    [] transport = "bad_json" ->
         IF op = "cancel_booking" THEN {Returned(TRUE, "")}
         ELSE {Returned(FALSE, "JSONDecodeError"), Propagated("ValueError")}
    [] transport \in {"http_error", "connection_error", "timeout"} -> {Returned(FALSE, transport)}
    [] OTHER -> {Propagated("Exception")}

JohnSmithWords == <<Word("john"), Word("smith")>>

(* the arguments the agents pass to each operation *)
ClientArgs(op) ==
  CASE op = "check_availability" ->
         { [NoArgs EXCEPT !.date = Ymd(1), !.time = t, !.party_size = n] :
             t \in {NoTime, HHMM(19, 0)}, n \in {NoParty, 0, 4} }
    [] op = "create_booking" ->
         { [NoArgs EXCEPT !.name = nm, !.date = Ymd(1), !.time = t, !.party_size = 4] :
             nm \in {<<Word("john")>>, JohnSmithWords}, t \in {HHMM(19, 0), HHMMSS(19, 0)} }
    [] op = "update_booking" ->
         { [NoArgs EXCEPT !.booking_reference = "abc1234", !.date = d, !.time = t, !.party_size = n] :
             d \in {NoDate, Ymd(2)}, t \in {NoTime, HHMM(20, 30)}, n \in {NoParty, 4} }
    [] OTHER -> { RefArgs("abc1234") }

ClientOperations ==
  {"check_availability", "create_booking", "get_booking", "update_booking", "cancel_booking"}

InitClient ==
  /\ impl = "simple"
  /\ wd \in {5}
  /\ sessions = <<>>
  /\ turn = NoTurn
  /\ turns = 0
  /\ script = NoScript
  /\ probe = NoProbe
  /\ store = <<>>
  /\ http = NoHttp
  /\ loop = NoLoop
  /\ memory = <<>>
  /\ \E op \in ClientOperations, t \in Transports :
        \E a \in ClientArgs(op) :
           client = [NoClient EXCEPT !.op = op, !.args = a, !.transport = t, !.request = NoForm]

(* one call of the client *)
Invoke ==
  /\ ~client.done
  /\ \E res \in client_results(client.op, client.transport) :
        client' = [client EXCEPT !.done = TRUE,
                                 !.request = client_form(client.op, client.args),
                                 !.raised = res.raised,
                                 !.success = res.success,
                                 !.error = res.error]
  /\ UNCHANGED <<impl, wd, sessions, turn, turns, script, probe, store, http, loop, memory>>

SpecClient == InitClient /\ [][Invoke]_vars

(* C15: no operation of BookingAPIClient raises to its caller: whatever    *)
(* exception ends the underlying HTTP request, the operation returns a     *)
(* result with success = false and an error field.                         *)
C15_NeverRaises ==
  (client.done /\ client.transport \notin {"ok", "bad_json"}) =>
     /\ client.raised = ""
     /\ ~client.success
     /\ client.error # ""

-----------------------------------------------------------------------------
(* backend/app.py and backend/app_local.py : the session store.  store is  *)
(* the dict `sessions` (session id -> agent) as the sequence of its keys   *)
(* in insertion order.  Each stored agent is called with its own session   *)
(* id only, so the variable sessions holds, per session id, what the agent *)
(* stored under that id keeps.  impl = "app" is app.py with agent.py,      *)
(* impl = "local" is app_local.py with agent_local.py; with the other      *)
(* values of impl a caller holds one agent and calls it directly, as       *)
(* setup.py and the test scripts do.                                       *)

max_sessions == 100

InStore(st, sid) == \E i \in 1..Len(st) : st[i] = sid

(* del sessions[key] *)
Without(st, sid) == SelectSeq(st, LAMBDA x : x # sid)

(* the agents that are still in the store *)
Kept(st, agents) == [x \in { y \in DOMAIN agents : InStore(st, y) } |-> agents[x]]

With(agents, sid, session) ==
  [x \in DOMAIN agents \cup {sid} |-> IF x = sid THEN session ELSE agents[x]]

(* cleanup_old_sessions keeping list(sessions.keys())[:max_sessions] *)
cleanup_keeps_first(st) ==
  IF Len(st) > max_sessions THEN SubSeq(st, 1, max_sessions) ELSE st

(* cleanup_old_sessions: keys_to_remove = list(sessions.keys())[:-max_sessions] *)
cleanup_old_sessions(st) ==
  IF Len(st) > max_sessions THEN SubSeq(st, Len(st) - max_sessions + 1, Len(st)) ELSE st

LlmProviders == {"openai", "ollama"}

(* get_llm_config: the keywords of the configuration *)
get_llm_config(provider) ==
  IF provider = "ollama"
  THEN {"llm_provider", "llm_model", "temperature", "ollama_base_url"}
  ELSE {"llm_provider", "llm_model", "temperature"}

(* agent.BookingAgent.__init__(api_client, model, temperature, base_url):  *)
(* a keyword it does not declare is a TypeError                            *)
agent_init(keywords) ==
  IF keywords \subseteq {"model", "temperature", "base_url"} THEN "" ELSE "TypeError"

(* get_or_create_agent: the store afterwards, or what the constructor raised *)
get_or_create_agent(st, sid, provider) ==
  IF InStore(st, sid) THEN [store |-> st, raised |-> ""]
  ELSE LET e == agent_init(get_llm_config(provider))
       IN IF e = "" THEN [store |-> Append(st, sid), raised |-> ""]
          ELSE [store |-> st, raised |-> e]

(* agent_local.BookingAgent.process_message: the reply is the language     *)
(* model's (agent.run), or the fallback text when the run raises; the      *)
(* agent's ConversationBufferMemory gains the exchange of a completed run  *)
local_turn(session, understanding) ==
  LET history1 == Append(session.history, Entry("user", session.history))
      history2 == Append(history1, Entry("assistant", history1))
  IN IF understanding = OracleFailed
     THEN [session |-> session, intent |-> "llm", merged |-> session.ctx,
           out |-> Outcome(session.ctx, <<>>, Reply("fallback"))]
     ELSE [session |-> [session EXCEPT !.history = history2], intent |-> "llm",
           merged |-> session.ctx, out |-> Outcome(session.ctx, <<>>, Reply("llm"))]

(* agent.process_message(message, session_id) of the agent class in use;  *)
(* app.py imports agent.py                                                 *)
agent_step(session, id, understanding, r) ==
  CASE impl = "simple" -> simple_turn(session, id, r)
    [] impl \in {"agent", "app"} -> agent_turn(session, understanding, r)
    [] impl = "ollama" ->
         LET t == ollama_turn(session, Tokens(id), r)
         IN [session |-> t.session, intent |-> t.intent, merged |-> t.out.ctx, out |-> t.out]
    [] impl = "sollama" -> sollama_turn(session, id, r)
    [] impl = "local" -> local_turn(session, understanding)

(* the answer of an endpoint: the session id the request gave ("" when it  *)
(* gave none), the status, the session id and the message in the body      *)
Http(route, given, status, sid, detail) ==
  [route |-> route, given |-> given, status |-> status, session_id |-> sid, detail |-> detail]

(* message.session_id or str(uuid.uuid4()) *)
SessionIdOf(given, uuid) == IF given # "" THEN given ELSE uuid

(* app.py chat *)
app_chat(given, uuid, id, understanding, r, provider) ==
  LET sid == SessionIdOf(given, uuid)
      st1 == cleanup_old_sessions(store)
      agents1 == Kept(st1, sessions)
      g == get_or_create_agent(st1, sid, provider)
      session == IF sid \in DOMAIN agents1 THEN agents1[sid] ELSE NewSession
      t == agent_turn(session, understanding, r)
  IN /\ store' = g.store
     /\ IF g.raised # ""
        THEN /\ sessions' = agents1
             /\ turn' = Observe(sid, id, NoIntent, EmptySlots,
                                Outcome(EmptySlots, <<>>, Raised(g.raised)))
             /\ http' = Http("chat", given, 500, "", "Error processing message")
        ELSE /\ sessions' = With(agents1, sid, t.session)
             /\ turn' = Observe(sid, id, t.intent, t.merged, t.out)
             /\ http' = IF t.out.response.kind = "raise"
                        THEN Http("chat", given, 500, "", "Error processing message")
                        ELSE Http("chat", given, 200, sid, "")

(* app_local.py chat *)
local_chat(given, uuid, id, understanding) ==
  LET sid == SessionIdOf(given, uuid)
      session == IF sid \in DOMAIN sessions THEN sessions[sid] ELSE NewSession
      t == local_turn(session, understanding)
  IN /\ store' = IF InStore(store, sid) THEN store ELSE Append(store, sid)
     /\ sessions' = With(sessions, sid, t.session)
     /\ turn' = Observe(sid, id, t.intent, t.merged, t.out)
     /\ http' = Http("chat", given, 200, sid, "")

(* clear_memory(session_id) leaving the session where it is *)
clear_memory_keeps_session(agents, sid) == agents

(* clear_memory(session_id) of every agent class: the session is deleted   *)
(* when the agent holds it                                                 *)
clear_memory(agents, sid) == [x \in DOMAIN agents \ {sid} |-> agents[x]]

(* app.py reset_session *)
app_reset_session(sid) ==
  IF InStore(store, sid)
  THEN /\ sessions' = clear_memory(sessions, sid)
       /\ store' = Without(store, sid)
       /\ http' = Http("reset", sid, 200, sid, "Session reset successfully")
  ELSE /\ http' = Http("reset", sid, 200, sid, "Session not found")
       /\ UNCHANGED <<sessions, store>>

(* reset_session answering without clearing the agent *)
local_reset_session_answers_only(sid) ==
  /\ http' = Http("reset", sid, 200, "",
                  IF InStore(store, sid) THEN "Session reset successfully" ELSE "Session not found")
  /\ UNCHANGED <<sessions, store>>

(* app_local.py reset_session *)
local_reset_session(sid) ==
  IF InStore(store, sid)
  THEN /\ sessions' = clear_memory(sessions, sid)
       /\ http' = Http("reset", sid, 200, "", "Session reset successfully")
       /\ UNCHANGED store
  ELSE /\ http' = Http("reset", sid, 200, "", "Session not found")
       /\ UNCHANGED <<sessions, store>>

(* The endpoints and the agents under callers: "s1" is an id a caller      *)
(* chose, Uuids are the ids uuid4 generates, in the order it generates     *)
(* them.                                                                   *)

MaxAppTurns == 4

Uuids == <<"u1", "u2">>

AppIds == {"s1", "s2"} \cup { Uuids[i] : i \in 1..Len(Uuids) }

AppImplementations == {"app", "local", "simple", "agent", "ollama", "sollama"}

AppMessages == {"hi", "book a table for 4 tomorrow at 7pm"}

AppOracleOutputs ==
  { OracleFailed,
    OracleNonObject,
    Understanding("make_booking", JohnSmith, Ymd(1), HHMM(19, 0), 4, NoRef) }

(* the language model is consulted by agent.py and agent_local.py only;    *)
(* agent_local.py tells a run that raised from one that answered           *)
OracleFor ==
  CASE impl \in {"app", "agent"} -> AppOracleOutputs
    [] impl = "local" -> AppOracleOutputs \ {OracleNonObject}
    [] OTHER -> {OracleFailed}

(* agent.py and agent_local.py leave the reading of the message to the     *)
(* language model                                                          *)
MessagesFor ==
  IF impl \in {"app", "agent", "local"} THEN {"book a table for 4 tomorrow at 7pm"}
  ELSE AppMessages

(* per session id: the inputs of its turns since it was last reset, the    *)
(* number of resets, and the number of turns it had had at its last reset  *)
AppScript == [sid \in AppIds |-> [since |-> <<>>, resets |-> 0, before |-> 0]]

(* the last operation, its session id, and how many ids uuid4 has generated *)
AppProbe == [op |-> "", sid |-> "", issued |-> 0]

Input(id, understanding, r) == [id |-> id, understanding |-> understanding, r |-> r]

Heard(sid, input) == [script EXCEPT ![sid].since = Append(@, input)]

Forgotten(sid) ==
  [script EXCEPT ![sid] = [since |-> <<>>, resets |-> @.resets + 1,
                           before |-> IF @.since # <<>> THEN Len(@.since) ELSE @.before]]

InitApp ==
  /\ impl \in AppImplementations
  /\ wd \in {5}
  /\ sessions = <<>>
  /\ turn = NoTurn
  /\ turns = 0
  /\ script = AppScript
  /\ client = NoClient
  /\ loop = NoLoop
  /\ memory = <<>>
  /\ store = <<>>
  /\ http = NoHttp
  /\ probe = AppProbe

(* the calls of a turn under the endpoints: agent.py's; agent_local.py     *)
(* leaves the calls to the language model's tools                          *)
chat_calls(sid, understanding) ==
  IF impl = "app" /\ understanding.object /\ InStore(store, sid)
  THEN agent_turn(SessionOf(sid), understanding, NoResult).out.calls
  ELSE <<>>

(* POST /chat with the session id given, or with none *)
Chat(given, id, understanding, provider) ==
  LET uuid == Uuids[probe.issued + 1]
      sid == SessionIdOf(given, uuid)
  IN /\ impl \in {"app", "local"}
     /\ turns < MaxAppTurns
     /\ given = "" => probe.issued < Len(Uuids)
     /\ given # "" => given \in {"s1"} \cup { Uuids[i] : i \in 1..probe.issued }
     /\ \E r \in Answers(chat_calls(sid, understanding)) :
          /\ IF impl = "app"
             THEN app_chat(given, uuid, id, understanding, r, provider)
             ELSE local_chat(given, uuid, id, understanding)
          /\ script' = IF http'.status = 200 \/ turn'.response.error = "AttributeError"
                       THEN Heard(sid, Input(id, understanding, r))
                       ELSE script
     /\ probe' = [op |-> "chat", sid |-> sid,
                  issued |-> IF given = "" THEN probe.issued + 1 ELSE probe.issued]
     /\ turns' = turns + 1
     /\ UNCHANGED <<impl, wd, client, memory, loop>>

(* POST /reset/{session_id} *)
Reset(sid) ==
  /\ impl \in {"app", "local"}
  /\ turns < MaxAppTurns
  /\ IF impl = "app" THEN app_reset_session(sid) ELSE local_reset_session(sid)
  /\ script' = IF InStore(store, sid) THEN Forgotten(sid) ELSE script
  /\ probe' = [probe EXCEPT !.op = "reset", !.sid = sid]
  /\ turns' = turns + 1
  /\ UNCHANGED <<impl, wd, client, memory, loop, turn>>

(* agent.process_message(message, session_id) by a caller that holds the   *)
(* agent; the service answers exactly the turns that call it               *)
Process(sid, id, understanding) ==
  /\ impl \notin {"app", "local"}
  /\ turns < MaxAppTurns
  /\ \E r \in ServiceResults \cup {NoResult} :
       \E t \in {agent_step(SessionOf(sid), id, understanding, r)} :
          /\ (r = NoResult) = (t.out.calls = <<>>)
          /\ sessions' = With(sessions, sid, t.session)
          /\ turn' = Observe(sid, id, t.intent, t.merged, t.out)
          /\ script' = Heard(sid, Input(id, understanding, r))
  /\ probe' = [probe EXCEPT !.op = "process", !.sid = sid]
  /\ turns' = turns + 1
  /\ UNCHANGED <<impl, wd, client, memory, loop, store, http>>

(* agent.clear_memory(session_id) by a caller that holds the agent *)
Clear(sid) ==
  /\ impl \notin {"app", "local"}
  /\ turns < MaxAppTurns
  /\ sessions' = clear_memory(sessions, sid)
  /\ script' = IF sid \in DOMAIN sessions THEN Forgotten(sid) ELSE script
  /\ probe' = [probe EXCEPT !.op = "clear", !.sid = sid]
  /\ turns' = turns + 1
  /\ UNCHANGED <<impl, wd, client, memory, loop, store, http, turn>>

NextApp ==
  \/ \E given \in {""} \cup AppIds, id \in MessagesFor, u \in OracleFor, p \in LlmProviders :
        Chat(given, id, u, p)
  \/ \E sid \in AppIds \ {"s2"} : Reset(sid)
  \/ \E sid \in {"s1", "s2"}, id \in MessagesFor, u \in OracleFor : Process(sid, id, u)
  \/ \E sid \in {"s1", "s2"} : Clear(sid)

SpecApp == InitApp /\ [][NextApp]_vars

-----------------------------------------------------------------------------
(* Reset *)

ResetStep == probe'.op \in {"reset", "clear"} /\ turns' = turns + 1

(* the session id is one the store, or the agent a caller holds, does not know *)
Unknown(sid) ==
  IF impl \in {"app", "local"} THEN ~InStore(store, sid) ELSE sid \notin DOMAIN sessions

C16_Step ==
  LET sid == probe'.sid
  IN /\ sid \notin DOMAIN sessions'
     /\ impl = "app" => ~InStore(store', sid)
     /\ \A x \in DOMAIN sessions \ {sid} : x \in DOMAIN sessions' /\ sessions'[x] = sessions[x]
     /\ Unknown(sid) =>
          /\ sessions' = sessions /\ store' = store
          /\ impl \in {"app", "local"} => http'.detail = "Session not found"
     /\ (probe.op \in {"reset", "clear"} /\ probe.sid = sid) =>
          sessions' = sessions /\ store' = store

RECURSIVE Replay(_, _)
Replay(session, inputs) ==
  IF inputs = <<>> THEN session
  ELSE Replay(agent_step(session, Head(inputs).id, Head(inputs).understanding,
                         Head(inputs).r).session,
              Tail(inputs))

AllButLast(inputs) == SubSeq(inputs, 1, Len(inputs) - 1)

(* the response of the last of the turns, run from a session never seen *)
LastResponse(inputs) ==
  LET last == inputs[Len(inputs)]
  IN agent_step(Replay(NewSession, AllButLast(inputs)), last.id, last.understanding,
                last.r).out.response

-----------------------------------------------------------------------------
(* Session ids *)

ChatStep == probe'.op = "chat" /\ turns' = turns + 1

(* the turn came with an id that an earlier response returned, and the     *)
(* session has not been reset since                                        *)
ReturnedEarlier(given) ==
  /\ \E i \in 1..probe.issued : Uuids[i] = given
  /\ script[given].resets = 0

C18_Step ==
  LET sid == probe'.sid
      input == script'[sid].since[Len(script'[sid].since)]
  IN /\ http'.given = "" =>
          /\ ~InStore(store, sid) /\ sid \notin DOMAIN sessions
          /\ http'.status = 200
          /\ http'.session_id = sid
          /\ InStore(store', sid) /\ sid \in DOMAIN sessions'
     /\ ReturnedEarlier(http'.given) =>
          /\ sid = http'.given
          /\ sid \in DOMAIN sessions
          /\ script'[sid].since # script[sid].since
          /\ sessions'[sid] =
               agent_step(sessions[sid], input.id, input.understanding, input.r).session

(* C18: a turn sent without session id creates a new session under a newly *)
(* generated id, which the response returns; a later turn sent with that   *)
(* id works on the state (slots, step, last intent) the earlier turn left. *)
C18_GeneratedId == [][ChatStep => C18_Step]_vars

-----------------------------------------------------------------------------
(* The size of the store: callers that keep opening sessions.  The n-th    *)
(* session id a caller makes up is the text of n.                          *)

MaxIds == 102

MaxStoreTurns == 104

CallerId(n) == ToString(n)

MaxStoreHistory == 4

(* the store answers one request: a turn of the first session id, or a     *)
(* turn of a session id not used so far (app_local.py stores every id it   *)
(* is given, app.py none)                                                  *)
StoreChat(n) ==
  /\ turns < MaxStoreTurns
  /\ n = 1 \/ (n = Len(store) + 1 /\ impl = "local") \/ (n = turns + 1 /\ impl = "app")
  /\ n = 1 /\ CallerId(n) \in DOMAIN sessions =>
        Len(sessions[CallerId(n)].history) < MaxStoreHistory
  /\ IF impl = "app"
     THEN app_chat(CallerId(n), "", "hi", OracleFailed, NoResult, "openai")
     ELSE local_chat(CallerId(n), "", "hi", Understanding("greeting", NoName, NoDate, NoTime, NoParty, NoRef))
  /\ probe' = [op |-> "chat", sid |-> CallerId(n), issued |-> 0]
  /\ turns' = turns + 1
  /\ UNCHANGED <<impl, wd, client, memory, loop, script>>

(* a reset of a session id *)
StoreReset(n) ==
  /\ turns < MaxStoreTurns
  /\ probe.op # "reset"
  /\ IF impl = "app" THEN app_reset_session(CallerId(n)) ELSE local_reset_session(CallerId(n))
  /\ probe' = [op |-> "reset", sid |-> CallerId(n), issued |-> 0]
  /\ turns' = turns + 1
  /\ UNCHANGED <<impl, wd, client, memory, loop, script, turn>>

InitStore ==
  /\ impl \in {"app", "local"}
  /\ wd \in {5}
  /\ sessions = <<>>
  /\ turn = NoTurn
  /\ turns = 0
  /\ script = NoScript
  /\ client = NoClient
  /\ loop = NoLoop
  /\ memory = <<>>
  /\ store = <<>>
  /\ http = NoHttp
  /\ probe = AppProbe

NextStore ==
  \/ \E n \in 1..MaxIds : StoreChat(n)
  \/ StoreReset(1)

SpecStore == InitStore /\ [][NextStore]_vars

(* C19: after every completed turn the store holds at most max_sessions    *)
(* sessions, whatever the turns and their session ids were.                *)
C19_StoreBounded ==
  (probe.op = "chat" /\ http.status = 200) => Len(store) <= max_sessions

-----------------------------------------------------------------------------
(* cleanup_old_sessions on its own: the dict it is called on holds the     *)
(* keys in the order they were inserted, which is the order the sessions   *)
(* were created in (a session deleted and created again is inserted        *)
(* last).                                                                  *)

MaxStore == 103

(* keys "1" .. "n" inserted in this order, and then key k deleted and      *)
(* inserted again (k = 0: none)                                            *)
StoreOf(n, k) ==
  LET keys == [i \in 1..n |-> CallerId(i)]
  IN IF k = 0 THEN keys ELSE Append(Without(keys, CallerId(k)), CallerId(k))

(* the dict before the call, and whether the call has been made *)
NoCleanup == [before |-> <<>>, done |-> FALSE]

InitCleanup ==
  /\ impl = "app"
  /\ wd \in {5}
  /\ sessions = <<>>
  /\ turn = NoTurn
  /\ turns = 0
  /\ script = NoScript
  /\ client = NoClient
  /\ loop = NoLoop
  /\ memory = <<>>
  /\ http = NoHttp
  /\ probe = NoCleanup
  /\ \E n \in 0..MaxStore : \E k \in 0..n : store = StoreOf(n, k)

Cleanup ==
  /\ ~probe.done
  /\ store' = cleanup_old_sessions(store)
  /\ probe' = [before |-> store, done |-> TRUE]
  /\ UNCHANGED <<impl, wd, sessions, turn, turns, script, client, memory, loop, http>>

SpecCleanup == InitCleanup /\ [][Cleanup]_vars

Keys(st) == { st[i] : i \in 1..Len(st) }

Dropped == Keys(probe.before) \ Keys(store)

(* C20: cleanup drops sessions in the order of their creation: when it     *)
(* drops a session, the session created just before it is not left either, *)
(* hence none created before it is; it drops the excess over max_sessions  *)
(* and nothing more, so the store holds the max_sessions most recently     *)
(* created sessions afterwards.                                            *)
C20_OldestFirst ==
  probe.done =>
    LET before == probe.before
        excess == IF Len(before) > max_sessions THEN Len(before) - max_sessions ELSE 0
    IN /\ \A j \in 2..Len(before) :
            ~InStore(store, before[j]) => ~InStore(store, before[j - 1])
       /\ Cardinality(Dropped) = excess
       /\ store = SubSeq(before, excess + 1, Len(before))

(* cleanup has dropped sessions, one of the survivors created again after  *)
(* younger ones                                                            *)
C20_Witness ==
  /\ probe.done
  /\ Len(probe.before) > max_sessions + 1
  /\ Dropped # {}
  /\ store[Len(store)] = CallerId(2)

-----------------------------------------------------------------------------
(* The event loop under the endpoints.  uvicorn.run serves the application *)
(* in one process on one asyncio event loop; chat is a coroutine           *)
(* (async def), so a request's handler runs on the loop from the moment    *)
(* the loop resumes it until its next await expression or its return, and  *)
(* no other handler runs in between.  The handler is modelled statement by *)
(* statement so that where it yields decides what can interleave.          *)

MaxTasks == 3

(* the positions of chat at which the coroutine yields to the loop: chat   *)
(* holds no await expression                                               *)
chat_awaits_each_statement == {"entered", "checked", "got"}

chat_awaits == {}

(* a request to POST /chat, its coroutine not yet resumed *)
Task(given, id, understanding, provider) ==
  [given |-> given, id |-> id, understanding |-> understanding, provider |-> provider,
   pc |-> "created", sid |-> "", absent |-> FALSE, r |-> NoResult,
   seen |-> NewSession, calls |-> <<>>, status |-> 0, response |-> Reply("")]

(* the state the handlers share: the sessions dict, the agents' state and  *)
(* the number of ids uuid4 has generated                                   *)
Shared(st, agents, issued) == [store |-> st, sessions |-> agents, issued |-> issued]

Step(shared, task) == [shared |-> shared, task |-> task]

(* one statement of chat run by the task t on the shared state s; r is the *)
(* booking service's answer when the statement is process_message          *)
chat_statement(s, t, r) ==
  CASE t.pc = "created" ->
         (* session_id = message.session_id or str(uuid.uuid4()); app.py    *)
         (* then calls cleanup_old_sessions()                               *)
         LET st1 == IF impl = "app" THEN cleanup_old_sessions(s.store) ELSE s.store
         IN Step(Shared(st1, Kept(st1, s.sessions),
                        IF t.given = "" THEN s.issued + 1 ELSE s.issued),
                 [t EXCEPT !.pc = "entered",
                           !.sid = SessionIdOf(t.given, Uuids[s.issued + 1])])
    [] t.pc = "entered" ->
         (* if session_id not in sessions *)
         Step(s, [t EXCEPT !.pc = "checked", !.absent = ~InStore(s.store, t.sid)])
    [] t.pc = "checked" ->
         (* sessions[session_id] = BookingAgent(...) *)
         IF ~t.absent THEN Step(s, [t EXCEPT !.pc = "got"])
         ELSE IF impl = "app" /\ agent_init(get_llm_config(t.provider)) # ""
         THEN Step(s, [t EXCEPT !.pc = "done", !.status = 500,
                                !.response = Raised(agent_init(get_llm_config(t.provider)))])
         ELSE Step(Shared(IF InStore(s.store, t.sid) THEN s.store ELSE Append(s.store, t.sid),
                          With(s.sessions, t.sid, NewSession), s.issued),
                   [t EXCEPT !.pc = "got"])
    [] t.pc = "got" ->
         (* agent = sessions[session_id]; agent.process_message(...), of    *)
         (* agent_local.py under app_local.py and of agent.py under app.py  *)
         LET session == IF t.sid \in DOMAIN s.sessions THEN s.sessions[t.sid] ELSE NewSession
             n == IF impl = "local" THEN local_turn(session, t.understanding)
                  ELSE agent_turn(session, t.understanding, r)
         IN Step(Shared(s.store, With(s.sessions, t.sid, n.session), s.issued),
                 [t EXCEPT !.pc = "done", !.r = r, !.seen = session, !.calls = n.out.calls,
                           !.status = IF n.out.response.kind = "raise" THEN 500 ELSE 200,
                           !.response = n.out.response])

(* the loop creates the task of a request that arrived; it does so between *)
(* two runs of coroutines                                                  *)
Accept(given, id, understanding, provider) ==
  /\ impl \in {"app", "local"}
  /\ loop.running = 0
  /\ Len(loop.tasks) < MaxTasks
  /\ given = "" =>
       Cardinality({ i \in 1..Len(loop.tasks) : loop.tasks[i].given = "" }) < Len(Uuids)
  /\ loop' = [loop EXCEPT !.tasks = Append(@, Task(given, id, understanding, provider))]
  /\ UNCHANGED <<impl, wd, sessions, turn, turns, script, probe, client, memory, store, http>>

(* the tasks whose coroutine has not been resumed yet *)
Waiting == { j \in 1..Len(loop.tasks) : loop.tasks[j].pc = "created" }

(* the loop resumes a task: the one that is running, or any task when none *)
(* is; the task runs one statement and keeps the loop unless the statement *)
(* it reached is an await or the handler has returned                      *)
Resume(i) ==
  /\ i \in 1..Len(loop.tasks)
  /\ loop.running \in {0, i}
  /\ loop.tasks[i].pc # "done"
  /\ \E r \in ServiceResults \cup {NoResult} :
       \E n \in {chat_statement(Shared(store, sessions, probe.issued), loop.tasks[i], r)} :
          /\ (r = NoResult) = (n.task.calls = <<>>)
          /\ store' = n.shared.store
          /\ sessions' = n.shared.sessions
          /\ probe' = [probe EXCEPT !.op = "chat", !.sid = n.task.sid,
                                    !.issued = n.shared.issued]
          /\ loop' = [tasks |-> [loop.tasks EXCEPT ![i] = n.task],
                      running |-> IF n.task.pc = "done" \/ n.task.pc \in chat_awaits
                                  THEN 0 ELSE i,
                      met |-> IF loop.tasks[i].pc = "created"
                              THEN loop.met \cup { <<i, j>> : j \in Waiting \ {i} }
                              ELSE loop.met]
  /\ UNCHANGED <<impl, wd, turn, turns, script, client, memory, http>>

InitLoop ==
  /\ impl \in {"app", "local"}
  /\ wd \in {5}
  /\ sessions = <<>>
  /\ turn = NoTurn
  /\ turns = 0
  /\ script = NoScript
  /\ client = NoClient
  /\ loop = NoLoop
  /\ memory = <<>>
  /\ store = <<>>
  /\ http = NoHttp
  /\ probe = AppProbe

(* app_local.py names its model itself; app.py reads LLM_PROVIDER *)
ProvidersFor == IF impl = "app" THEN LlmProviders ELSE {""}

(* a run of the language model that fails, and one that understands *)
LoopOracle ==
  {OracleFailed, Understanding("make_booking", JohnSmith, Ymd(1), HHMM(19, 0), 4, NoRef)}

NextLoop ==
  \/ \E given \in {"", "s1"}, id \in MessagesFor, u \in LoopOracle, p \in ProvidersFor :
        Accept(given, id, u, p)
  \/ \E i \in 1..MaxTasks : Resume(i)

SpecLoop == InitLoop /\ [][NextLoop]_vars

(* the handler run from the statement the task is at to its return, with   *)
(* nothing else run in between                                             *)
RECURSIVE run_to_return(_, _, _)
run_to_return(s, t, r) ==
  IF t.pc = "done" THEN Step(s, t)
  ELSE \* only process_message meets the service
       LET n == chat_statement(s, t, IF t.pc = "got" THEN r ELSE NoResult)
       IN run_to_return(n.shared, n.task, r)

(* the tasks run one after the other in the given order from the state s:  *)
(* the shared state at the end, and whether each task returned what it     *)
(* has returned in tasks                                                   *)
RECURSIVE Serial(_, _, _)
Serial(s, order, tasks) ==
  IF order = <<>> THEN [shared |-> s, same |-> TRUE]
  ELSE LET t == tasks[Head(order)]
           n == run_to_return(s, Task(t.given, t.id, t.understanding, t.provider), t.r)
           rest == Serial(n.shared, Tail(order), tasks)
       IN [shared |-> rest.shared, same |-> rest.same /\ n.task = t]

Returned21 == { i \in 1..Len(loop.tasks) : loop.tasks[i].pc = "done" }

Midway == { i \in 1..Len(loop.tasks) : loop.tasks[i].pc \notin {"created", "done"} }

Orders(S) ==
  { o \in [1..Cardinality(S) -> S] : \A i, j \in 1..Cardinality(S) : i # j => o[i] # o[j] }

(* C21: handlers of concurrent requests never interleave: at most one      *)
(* handler is between its first statement and its return, and whenever     *)
(* none is, the sessions, the agents' state and what every finished        *)
(* handler read and answered are those of running the finished handlers    *)
(* one after the other in some order.                                      *)
C21_Serial ==
  /\ Cardinality(Midway) <= 1
  /\ Midway = {} =>
       \E order \in Orders(Returned21) :
          \E z \in {Serial(Shared(<<>>, <<>>, 0), order, loop.tasks)} :
             z.same /\ z.shared = Shared(store, sessions, probe.issued)

(* two requests on one session were both waiting when the loop resumed the *)
(* later one first; both have been answered and the session holds both     *)
(* exchanges                                                               *)
C21_Witness ==
  \E i, j \in Returned21 :
     /\ j < i /\ <<i, j>> \in loop.met
     /\ loop.tasks[i].sid = loop.tasks[j].sid
     /\ loop.tasks[i].status = 200 /\ loop.tasks[j].status = 200
     /\ Len(loop.tasks[i].seen.history) = 0
     /\ Len(loop.tasks[j].seen.history) = 2
     /\ Len(sessions[loop.tasks[i].sid].history) = 4

-----------------------------------------------------------------------------
(* One agent object serving several sessions, as test_natural_language     *)
(* (test_ollama_agent.py 43-62) does with one BookingAgent and the ids     *)
(* test_session_1 .. test_session_4.  The caller's session id is "s1",     *)
(* "s2", or "" for a call without one (session_id = None).  memory is the  *)
(* agent's ConversationBufferMemory, which agent_ollama.py creates once    *)
(* per agent (38-41) and hands to its AgentExecutor (108-116); the prompt  *)
(* of every run of the executor holds it as {chat_history} (84).           *)

MaxSharedTurns == 3

SharedIds == {"", "s1", "s2"}

SharedMessages == {"hi", "John Smith", "book a table", "can you try that again"}

(* the exchange the executor saves after a run: who sent it, and what *)
Exchange(sid, id) == [sid |-> sid, id |-> id]

(* what the last turn was given besides its message: the sessions before   *)
(* it, the session it read and the chat history in the model's prompt      *)
SharedProbe == [op |-> "", sid |-> "", before |-> <<>>, prompt |-> <<>>]

(* agent_ollama.py and agent_simple_ollama.py keep no session for a call   *)
(* without a session id: session = {}                                      *)
Stored(sid) == sid # "" \/ impl \in {"simple", "agent"}

(* AgentExecutor(..., memory=self.memory): the chat history a run of the   *)
(* executor on behalf of sid is given                                      *)
executor_memory(mem, sid) == mem

InitShared ==
  /\ impl \in Implementations
  /\ wd \in {5}
  /\ sessions = <<>>
  /\ turn = NoTurn
  /\ turns = 0
  /\ script = NoScript
  /\ client = NoClient
  /\ loop = NoLoop
  /\ memory = <<>>
  /\ store = <<>>
  /\ http = NoHttp
  /\ probe = SharedProbe

(* agent.process_message(message, session_id) *)
SharedTurn(sid, id, understanding) ==
  /\ turns < MaxSharedTurns
  /\ \E r \in ServiceResults \cup {NoResult} :
       \E t \in {agent_step(IF Stored(sid) THEN SessionOf(sid) ELSE NewSession,
                            id, understanding, r)} :
          /\ (r = NoResult) = (t.out.calls = <<>>)
          /\ sessions' = IF Stored(sid) THEN With(sessions, sid, t.session) ELSE sessions
          /\ turn' = Observe(sid, id, t.intent, t.merged, t.out)
          /\ \E run \in {impl = "ollama" /\ t.intent = "llm"} :
                /\ memory' = IF run THEN Append(memory, Exchange(sid, id)) ELSE memory
                /\ probe' = [op |-> "process", sid |-> sid, before |-> sessions,
                             prompt |-> IF run THEN executor_memory(memory, sid) ELSE <<>>]
  /\ turns' = turns + 1
  /\ UNCHANGED <<impl, wd, script, client, loop, store, http>>

(* agent.py alone has the language model read the message *)
SharedOracle ==
  IF impl = "agent"
  THEN {OracleFailed, Understanding("make_booking", JohnSmith, NoDate, NoTime, NoParty, NoRef)}
  ELSE {OracleFailed}

NextShared ==
  \E sid \in SharedIds, id \in SharedMessages, u \in SharedOracle : SharedTurn(sid, id, u)

SpecShared == InitShared /\ [][NextShared]_vars

SharedStep == turns' = turns + 1 /\ probe'.op = "process"

(* C22: a turn on one session leaves every other session as it was, and    *)
(* what decides its response besides its own message and session is        *)
(* nothing another session sent: the chat history in the language model's  *)
(* prompt holds exchanges of the turn's own session only.                  *)
C22_Independent ==
  [][SharedStep =>
       /\ \A x \in DOMAIN sessions \ {probe'.sid} :
             x \in DOMAIN sessions' /\ sessions'[x] = sessions[x]
       /\ \A k \in 1..Len(probe'.prompt) : probe'.prompt[k].sid = probe'.sid]_vars

-----------------------------------------------------------------------------
(* A long conversation in one session: enough turns for a history to       *)
(* outgrow any cap.                                                        *)

MaxHistoryTurns == 22

HistoryMessages == {"hi", "can you try that again"}

(* what the language model of agent.py returns: an understanding, or JSON  *)
(* that is not an object                                                   *)
HistoryOracle ==
  IF impl = "agent"
  THEN {OracleNonObject, Understanding("make_booking", JohnSmith, NoDate, NoTime, NoParty, NoRef)}
  ELSE {OracleFailed}

MaxRaised == 1

(* the conversation the agent keeps for the session: the session's history *)
(* list, or agent_ollama's ConversationBufferMemory                        *)
HistoryOf(agents, mem) ==
  IF impl = "ollama" THEN mem
  ELSE IF "s1" \in DOMAIN agents THEN agents["s1"].history ELSE <<>>

(* the history the session had before its last turn, and how many turns    *)
(* have raised                                                             *)
HistoryProbe == [op |-> "", before |-> <<>>, raised |-> 0]

InitHistory ==
  /\ impl \in Implementations
  /\ wd \in {5}
  /\ sessions = <<>>
  /\ turn = NoTurn
  /\ turns = 0
  /\ script = NoScript
  /\ client = NoClient
  /\ loop = NoLoop
  /\ memory = <<>>
  /\ store = <<>>
  /\ http = NoHttp
  /\ probe = HistoryProbe

(* agent.process_message(message, "s1") *)
LongTurn(id, understanding) ==
  /\ turns < MaxHistoryTurns
  /\ understanding = OracleNonObject => probe.raised < MaxRaised
  /\ \E r \in ServiceResults \cup {NoResult} :
       \E t \in {agent_step(SessionOf("s1"), id, understanding, r)} :
          /\ (r = NoResult) = (t.out.calls = <<>>)
          /\ sessions' = With(sessions, "s1", t.session)
          /\ turn' = Observe("s1", id, t.intent, t.merged, t.out)
          /\ memory' = IF impl = "ollama" /\ t.intent = "llm"
                       THEN Append(memory, Exchange("s1", id)) ELSE memory
          /\ probe' = [op |-> "turn", before |-> HistoryOf(sessions, memory),
                       raised |-> IF t.out.response.kind = "raise"
                                  THEN probe.raised + 1 ELSE probe.raised]
  /\ turns' = turns + 1
  /\ UNCHANGED <<impl, wd, script, client, loop, store, http>>

NextHistory == \E id \in HistoryMessages, u \in HistoryOracle : LongTurn(id, u)

SpecHistory == InitHistory /\ [][NextHistory]_vars

(* C23: after every turn the session's history holds at most 20 entries;   *)
(* it is the history before the turn without some number of its oldest     *)
(* entries, in the same order, followed by what the turn added (at most    *)
(* the message and the response).                                          *)
C23_HistoryCapped ==
  probe.op = "turn" =>
    LET h == probe.before
        h2 == HistoryOf(sessions, memory)
    IN /\ Len(h2) <= agent_history_cap
       /\ \E a \in 0..2 : \E d \in 0..Len(h) :
             /\ Len(h2) = Len(h) - d + a
             /\ SubSeq(h2, 1, Len(h2) - a) = SubSeq(h, d + 1, Len(h))

-----------------------------------------------------------------------------
(* backend/tools.py : DateTimeParser on the text of a phrase.  The         *)
(* dialogue engine above reads messages as tokens; here a phrase is the    *)
(* string the parser is given, and str.lower, str.strip, `in`, re.search,  *)
(* strptime and strftime are modelled on its characters.                   *)

DigitChars == "0123456789"

LowerChars == "abcdefghijklmnopqrstuvwxyz"

UpperChars == "ABCDEFGHIJKLMNOPQRSTUVWXYZ"

(* s[i:i+1]: the character at position i, empty beyond the end *)
At(s, i) == IF i \in 1..Len(s) THEN SubSeq(s, i, i) ELSE ""

(* s[i-1:j]: empty when it reaches beyond the end *)
Sub(s, i, j) == IF i >= 1 /\ j <= Len(s) /\ i <= j THEN SubSeq(s, i, j) ELSE ""

IsDigit(c) == \E i \in 1..Len(DigitChars) : At(DigitChars, i) = c

DigitValue(c) == (CHOOSE i \in 1..Len(DigitChars) : At(DigitChars, i) = c) - 1

DigitText(n) == At(DigitChars, n + 1)

(* str.isdigit() of a nonempty string *)
AllDigits(s) == s # "" /\ \A i \in 1..Len(s) : IsDigit(At(s, i))

(* int(s) of a string of digits *)
RECURSIVE int(_)
int(s) ==
  IF s = "" THEN 0 ELSE int(SubSeq(s, 1, Len(s) - 1)) * 10 + DigitValue(At(s, Len(s)))

(* str(n) *)
RECURSIVE str(_)
str(n) == IF n < 10 THEN DigitText(n) ELSE str(n \div 10) \o DigitText(n % 10)

(* f"{n:02d}" and strftime's %m, %d *)
Pad2(n) == IF n < 10 THEN "0" \o DigitText(n) ELSE str(n)

(* str.lower() *)
RECURSIVE Lower(_)
Lower(s) ==
  IF s = "" THEN ""
  ELSE LET c == At(s, 1)
       IN (IF \E i \in 1..Len(UpperChars) : At(UpperChars, i) = c
           THEN At(LowerChars, CHOOSE i \in 1..Len(UpperChars) : At(UpperChars, i) = c)
           ELSE c) \o Lower(SubSeq(s, 2, Len(s)))

(* str.strip() *)
RECURSIVE Strip(_)
Strip(s) ==
  IF s = "" THEN ""
  ELSE IF At(s, 1) = " " THEN Strip(SubSeq(s, 2, Len(s)))
  ELSE IF At(s, Len(s)) = " " THEN Strip(SubSeq(s, 1, Len(s) - 1))
  ELSE s

(* str.replace(c, '') *)
RECURSIVE Remove(_, _)
Remove(s, c) ==
  IF s = "" THEN ""
  ELSE (IF At(s, 1) = c THEN "" ELSE At(s, 1)) \o Remove(SubSeq(s, 2, Len(s)), c)

(* kw in s *)
Has(s, kw) == \E i \in 1..(Len(s) - Len(kw) + 1) : SubSeq(s, i, i + Len(kw) - 1) = kw

(* the number of digits at position i of s, at most most *)
RECURSIVE DigitRun(_, _, _)
DigitRun(s, i, most) ==
  IF most = 0 \/ i > Len(s) \/ ~IsDigit(At(s, i)) THEN 0 ELSE 1 + DigitRun(s, i + 1, most - 1)

(* datetime: a calendar day *)
Date(y, m, d) == [y |-> y, m |-> m, d |-> d]

IsLeap(y) == y % 4 = 0 /\ (y % 100 # 0 \/ y % 400 = 0)

DaysInMonth(y, m) ==
  IF m = 2 THEN (IF IsLeap(y) THEN 29 ELSE 28)
  ELSE IF m \in {4, 6, 9, 11} THEN 30 ELSE 31

(* datetime(year, month, day) does not raise ValueError *)
IsDate(y, m, d) ==
  /\ y \in 1..9999 /\ m \in 1..12
  /\ d >= 1 /\ d <= DaysInMonth(y, m)

(* days of the year before the first of month m *)
RECURSIVE DaysBeforeMonth(_, _)
DaysBeforeMonth(y, m) ==
  IF m = 1 THEN 0 ELSE DaysBeforeMonth(y, m - 1) + DaysInMonth(y, m - 1)

(* date.toordinal(): 1 for 0001-01-01 *)
Ordinal(date) ==
  LET y == date.y - 1
  IN y * 365 + y \div 4 - y \div 100 + y \div 400 + DaysBeforeMonth(date.y, date.m) + date.d

(* date.weekday(): Monday is 0 *)
Weekday(date) == (Ordinal(date) + 6) % 7

(* date + timedelta(days=n), n >= 0 *)
RECURSIVE AddDays(_, _)
AddDays(date, n) ==
  IF n = 0 THEN date
  ELSE AddDays(IF date.d < DaysInMonth(date.y, date.m) THEN [date EXCEPT !.d = @ + 1]
               ELSE IF date.m < 12 THEN Date(date.y, date.m + 1, 1)
               ELSE Date(date.y + 1, 1, 1),
               n - 1)

(* date.strftime('%Y-%m-%d'); the C library writes a year below 1000       *)
(* without leading zeros                                                   *)
strftime(date) == str(date.y) \o "-" \o Pad2(date.m) \o "-" \o Pad2(date.d)

NoDay == Date(0, 0, 0)

(* formats with '%Y-%d-%m' tried first *)
formats_day_before_month ==
  <<[sep |-> "-", fields |-> "Ydm"], [sep |-> "-", fields |-> "Ymd"],
    [sep |-> "/", fields |-> "dmY"], [sep |-> "/", fields |-> "mdY"],
    [sep |-> "/", fields |-> "Ymd"], [sep |-> "-", fields |-> "dmY"]>>

(* the formats parse_date tries, in order: the separator and the order of  *)
(* the fields                                                              *)
formats ==
  <<[sep |-> "-", fields |-> "Ymd"], [sep |-> "/", fields |-> "dmY"],
    [sep |-> "/", fields |-> "mdY"], [sep |-> "/", fields |-> "Ymd"],
    [sep |-> "-", fields |-> "dmY"], [sep |-> "-", fields |-> "mdY"]>>

(* what strptime's directives accept: %Y four digits, %m 1..12 and %d      *)
(* 1..31 in one or two digits                                              *)
FieldOk(f, part) ==
  /\ AllDigits(part)
  /\ CASE f = "Y" -> Len(part) = 4
       [] f = "m" -> Len(part) <= 2 /\ int(part) \in 1..12
       [] f = "d" -> Len(part) <= 2 /\ int(part) \in 1..31

(* datetime.strptime(text, fmt): the day, or NoDay for ValueError *)
strptime(text, fmt) ==
  LET seps == { i \in 1..Len(text) : At(text, i) = fmt.sep }
  IN IF Cardinality(seps) # 2 THEN NoDay
     ELSE LET i1 == CHOOSE i \in seps : \A j \in seps : i <= j
              i2 == CHOOSE i \in seps : \A j \in seps : i >= j
              parts == <<Sub(text, 1, i1 - 1), Sub(text, i1 + 1, i2 - 1),
                         Sub(text, i2 + 1, Len(text))>>
              field(f) == parts[CHOOSE k \in 1..3 : At(fmt.fields, k) = f]
          IN IF /\ \A k \in 1..3 : FieldOk(At(fmt.fields, k), parts[k])
                /\ IsDate(int(field("Y")), int(field("m")), int(field("d")))
             THEN Date(int(field("Y")), int(field("m")), int(field("d")))
             ELSE NoDay

(* re.search(r'(\d{1,2})[/-](\d{1,2})(?:[/-](\d{2,4}))?', s): the groups   *)
(* of the leftmost match, found is FALSE when there is none                *)
date_match(s) ==
  LET g1(i) == IF DigitRun(s, i, 2) = 2 /\ At(s, i + 2) \in {"/", "-"} /\ IsDigit(At(s, i + 3))
               THEN 2
               ELSE IF DigitRun(s, i, 1) = 1 /\ At(s, i + 1) \in {"/", "-"}
                       /\ IsDigit(At(s, i + 2))
               THEN 1 ELSE 0
      starts == { i \in 1..Len(s) : g1(i) > 0 }
  IN IF starts = {} THEN [found |-> FALSE, g1 |-> "", g2 |-> "", g3 |-> ""]
     ELSE LET i == CHOOSE x \in starts : \A y \in starts : x <= y
              j == i + g1(i) + 1
              n2 == DigitRun(s, j, 2)
              k == j + n2
              n3 == IF At(s, k) \in {"/", "-"} THEN DigitRun(s, k + 1, 4) ELSE 0
          IN [found |-> TRUE, g1 |-> Sub(s, i, i + g1(i) - 1), g2 |-> Sub(s, j, j + n2 - 1),
              g3 |-> IF n3 >= 2 THEN Sub(s, k + 1, k + n3) ELSE ""]

(* days_ahead with a week added only when the weekday is past *)
days_ahead_this_week(target, today) ==
  IF target - Weekday(today) < 0 THEN target - Weekday(today) + 7 ELSE target - Weekday(today)

(* days_ahead = target - today.weekday(); if days_ahead <= 0: += 7 *)
days_ahead(target, today) ==
  IF target - Weekday(today) <= 0 THEN target - Weekday(today) + 7 ELSE target - Weekday(today)

(* DateTimeParser.parse_date(date_str) with datetime.now() on the day      *)
(* today: the string it returns                                            *)
DateTimeParser_parse_date(date_str, today) ==
  IF date_str = "" THEN strftime(today)
  ELSE LET s == Strip(Lower(date_str))
           ahead(target) == days_ahead(target, today)
           named == { i \in 1..7 : Has(s, WeekdayNames[i]) }
           parsed == { k \in 1..Len(formats) : strptime(s, formats[k]) # NoDay }
           m == date_match(s)
           year == IF m.g3 = "" THEN today.y
                   ELSE IF int(m.g3) < 100 THEN int(m.g3) + 2000 ELSE int(m.g3)
       IN IF Has(s, "today") THEN strftime(today)
          ELSE IF Has(s, "tomorrow") THEN strftime(AddDays(today, 1))
          ELSE IF Has(s, "day after tomorrow") THEN strftime(AddDays(today, 2))
          ELSE IF Has(s, "weekend") \/ Has(s, "saturday") THEN strftime(AddDays(today, ahead(5)))
          ELSE IF Has(s, "sunday") THEN strftime(AddDays(today, ahead(6)))
          ELSE IF named # {}
          THEN strftime(AddDays(today, ahead(Least(named) - 1)
                                        + (IF Has(s, "next") THEN 7 ELSE 0)))
          ELSE IF parsed # {} THEN strftime(strptime(s, formats[Least(parsed)]))
          ELSE IF m.found /\ IsDate(year, int(m.g2), int(m.g1))
          THEN strftime(Date(year, int(m.g2), int(m.g1)))
          ELSE IF m.found /\ IsDate(year, int(m.g1), int(m.g2))
          THEN strftime(Date(year, int(m.g1), int(m.g2)))
          ELSE s

(* the hour of parse_time with pm adding twelve to every hour *)
hour24_pm_adds_always(hour, meridiem) ==
  IF meridiem = "pm" THEN hour + 12
  ELSE IF meridiem = "am" /\ hour = 12 THEN 0
  ELSE IF meridiem = "" /\ hour >= 1 /\ hour <= 11 /\ hour <= 5 THEN hour + 12
  ELSE hour

(* parse_time, lines 111-118: the hour on the 24-hour clock; meridiem is   *)
(* "" when the phrase has none                                             *)
hour24(hour, meridiem) ==
  IF meridiem = "pm" /\ hour < 12 THEN hour + 12
  ELSE IF meridiem = "am" /\ hour = 12 THEN 0
  ELSE IF meridiem = "" /\ hour >= 1 /\ hour <= 11 /\ hour <= 5 THEN hour + 12
  ELSE hour

(* DateTimeParser.parse_time(time_str): the string it returns.  The        *)
(* pattern (\d{1,2})(?::(\d{2}))?\s*([ap]m)? is searched in the phrase     *)
(* without its dots and spaces.                                            *)
DateTimeParser_parse_time(time_str) ==
  IF time_str = "" THEN "19:00"
  ELSE LET s == Remove(Remove(Strip(Lower(time_str)), "."), " ")
           digits == { i \in 1..Len(s) : IsDigit(At(s, i)) }
       IN IF digits = {} THEN s
          ELSE LET i == Least(digits)
                   n1 == DigitRun(s, i, 2)
                   hour == int(Sub(s, i, i + n1 - 1))
                   p == i + n1
                   minutes == IF At(s, p) = ":" /\ DigitRun(s, p + 1, 2) = 2
                              THEN Sub(s, p + 1, p + 2) ELSE ""
                   q == IF minutes = "" THEN p ELSE p + 3
                   meridiem == IF Sub(s, q, q + 1) \in {"am", "pm"} THEN Sub(s, q, q + 1) ELSE ""
               IN Pad2(hour24(hour, meridiem)) \o ":" \o Pad2(int(minutes))

-----------------------------------------------------------------------------
(* The parser applied to phrases: a phrase and the day datetime.now()      *)
(* falls on are drawn first, then parse_date or parse_time is applied.     *)

(* the days datetime.now() is drawn from: a week across the turn of the    *)
(* year, and the days around the end of February in a leap year and in a   *)
(* common year                                                             *)
ReferenceDays ==
  { AddDays(Date(2024, 12, 27), n) : n \in 0..6 }
    \cup { AddDays(Date(2024, 2, 26), n) : n \in 0..3 }
    \cup { AddDays(Date(2025, 2, 26), n) : n \in 0..2 }

Hours == 1..12

MinuteTexts == {"", ":00", ":05", ":30", ":59"}

(* h[:mm] followed by am, pm or nothing *)
ClockPhrases == { str(h) \o mm \o mer : h \in Hours, mm \in MinuteTexts, mer \in {"", "am", "pm"} }

TimePhrases ==
  ClockPhrases \cup
  {"", "soon", "noon", "7 PM", "7.30pm", "7 p.m.", "at 8", "19:00", "0:30", "13pm", "24",
   "730pm", "7:5pm", "half past seven"}

WeekdayPhrases ==
  { WeekdayNames[i] : i \in 1..7 } \cup { "next " \o WeekdayNames[i] : i \in 1..7 }
    \cup {"weekend", "this weekend", "next weekend", "this friday", "Next Friday", "on Monday"}

DatePhrases ==
  WeekdayPhrases \cup
  {"", "today", "Today", "tonight", "Tonight", "TOMORROW", "tomorrow", "tomorrow evening",
   "day after tomorrow", "2025-08-15", "2024-02-29", "2025-02-29", "15/08/2025",
   "08/15/2025", "2025/08/15", "15-08-2025", "12-25-25", "25/12", "2/30", "13/13/2025",
   "31/02/2025", "someday", "asap", "in two weeks", "the 15th"}

(* the phrase, the day, the function applied, what it returned, and what   *)
(* it returns for what it returned                                         *)
NoParse == [fn |-> "", text |-> "", today |-> NoDay, out |-> "", again |-> ""]

InitParse ==
  /\ impl = "simple"
  /\ sessions = <<>>
  /\ turn = NoTurn
  /\ turns = 0
  /\ script = NoScript
  /\ client = NoClient
  /\ loop = NoLoop
  /\ memory = <<>>
  /\ store = <<>>
  /\ http = NoHttp
  /\ \E today \in ReferenceDays, text \in DatePhrases \cup TimePhrases :
        /\ probe = [NoParse EXCEPT !.text = text, !.today = today]
        /\ wd = Weekday(today)

ParseDate ==
  /\ probe.fn = ""
  /\ probe.text \in DatePhrases
  /\ \E out \in {DateTimeParser_parse_date(probe.text, probe.today)} :
        probe' = [probe EXCEPT !.fn = "parse_date", !.out = out,
                               !.again = DateTimeParser_parse_date(out, probe.today)]
  /\ UNCHANGED <<impl, wd, sessions, turn, turns, script, client, loop, memory, store, http>>

ParseTime ==
  /\ probe.fn = ""
  /\ probe.text \in TimePhrases
  /\ \E out \in {DateTimeParser_parse_time(probe.text)} :
        probe' = [probe EXCEPT !.fn = "parse_time", !.out = out,
                               !.again = DateTimeParser_parse_time(out)]
  /\ UNCHANGED <<impl, wd, sessions, turn, turns, script, client, loop, memory, store, http>>

NextParse == ParseDate \/ ParseTime

SpecParse == InitParse /\ [][NextParse]_vars

(* the minutes of a clock phrase as parse_time writes them *)
MinutesOf(mm) == IF mm = "" THEN "00" ELSE Sub(mm, 2, 3)

(* C24: parse_time of h[:mm]pm returns hour h + 12, 12 for 12pm, and of    *)
(* h[:mm]am hour h, 00 for 12am, written HH:MM with the phrase's minutes.  *)
C24_Meridiem ==
  probe.fn = "parse_time" =>
    \A h \in Hours, mm \in MinuteTexts :
       /\ probe.text = str(h) \o mm \o "pm" =>
            probe.out = Pad2(IF h = 12 THEN 12 ELSE h + 12) \o ":" \o MinutesOf(mm)
       /\ probe.text = str(h) \o mm \o "am" =>
            probe.out = Pad2(IF h = 12 THEN 0 ELSE h) \o ":" \o MinutesOf(mm)

(* parse_time has been applied to 12:30pm and has returned 12:30 *)
C24_Witness ==
  probe.fn = "parse_time" /\ probe.text = "12:30pm" /\ probe.out = "12:30"

(* C25: parse_time of a time without am or pm takes the evening for dinner *)
(* hours: "7:00" gives "19:00" and "8" gives "20:00".                      *)
C25_Evening ==
  probe.fn = "parse_time" =>
    \A h \in {7, 8}, mm \in {"", ":00"} :
       probe.text = str(h) \o mm => probe.out = Pad2(h + 12) \o ":00"

(* the weekday a phrase names, Monday 0; the weekend is Saturday *)
NamedWeekday(text) ==
  IF Has(Lower(text), "weekend") THEN 5
  ELSE (CHOOSE i \in 1..7 : Has(Lower(text), WeekdayNames[i])) - 1

(* C26: for a weekday phrase parse_date returns the date of a day strictly *)
(* after the reference day that falls on the weekday named, at most 7 days *)
(* ahead when the phrase has no "next"; so the same weekday as the         *)
(* reference day gives the day a week later.                               *)
C26_WeekdayAhead ==
  (probe.fn = "parse_date" /\ probe.text \in WeekdayPhrases) =>
    \E n \in 1..14 :
       /\ probe.out = strftime(AddDays(probe.today, n))
       /\ Weekday(AddDays(probe.today, n)) = NamedWeekday(probe.text)
       /\ ~Has(Lower(probe.text), "next") => n <= 7

(* parse_date has been applied to "saturday" on a Saturday and has         *)
(* returned the Saturday a week later                                      *)
C26_Witness ==
  /\ probe.fn = "parse_date" /\ probe.text = "saturday"
  /\ Weekday(probe.today) = 5
  /\ probe.out = strftime(AddDays(probe.today, 7))

(* YYYY-MM-DD: four digits, two digits, two digits *)
IsCanonical(text) ==
  /\ Len(text) = 10
  /\ AllDigits(Sub(text, 1, 4)) /\ At(text, 5) = "-"
  /\ AllDigits(Sub(text, 6, 7)) /\ At(text, 8) = "-"
  /\ AllDigits(Sub(text, 9, 10))

(* C27: a date that parse_date returns in the form YYYY-MM-DD is returned  *)
(* unchanged when parse_date is applied to it.                             *)
C27_Idempotent ==
  (probe.fn = "parse_date" /\ IsCanonical(probe.out)) => probe.again = probe.out

(* parse_date has turned a phrase that is not a canonical date into one,   *)
(* in another month than the reference day's, and has returned that date   *)
(* for itself                                                              *)
C27_Witness ==
  /\ probe.fn = "parse_date" /\ probe.text = "next friday"
  /\ IsCanonical(probe.out) /\ probe.again = probe.out
  /\ Sub(probe.out, 6, 7) # Pad2(probe.today.m)

(* C28: for every weekday name w, "next" with w resolves to exactly 7 days *)
(* after the date that w alone resolves to.                                *)
C28_NextAddsWeek ==
  probe.fn = "parse_date" =>
    \A i \in 1..7, n \in 1..7 :
       (/\ probe.text = "next " \o WeekdayNames[i]
        /\ DateTimeParser_parse_date(WeekdayNames[i], probe.today)
             = strftime(AddDays(probe.today, n)))
       => probe.out = strftime(AddDays(probe.today, n + 7))

(* C29: a phrase containing "today" or "tonight" resolves to the reference *)
(* day and a phrase containing "tomorrow" to the day after it, whatever    *)
(* the case of its letters.                                                *)
C29_RelativeDays ==
  probe.fn = "parse_date" =>
    LET s == Lower(probe.text)
    IN IF Has(s, "today") \/ Has(s, "tonight") THEN probe.out = strftime(probe.today)
       ELSE Has(s, "tomorrow") => probe.out = strftime(AddDays(probe.today, 1))

(* phrases that name no date, and phrases that name no time *)
UnresolvableDates ==
  {"", "someday", "asap", "in two weeks", "the 15th", "13/13/2025", "31/02/2025", "2/30"}

UnresolvableTimes == {"", "soon", "noon", "half past seven"}

(* HH:MM *)
IsClock(text) ==
  /\ Len(text) = 5
  /\ AllDigits(Sub(text, 1, 2)) /\ At(text, 3) = ":" /\ AllDigits(Sub(text, 4, 5))

(* C30: for a phrase that cannot be resolved, the empty phrase included,   *)
(* the resolvers return neither a date or time (a guessed default) nor the *)
(* phrase itself.                                                          *)
C30_Unresolved ==
  /\ (probe.fn = "parse_date" /\ probe.text \in UnresolvableDates) =>
        ~IsCanonical(probe.out) /\ probe.out # Strip(Lower(probe.text))
  /\ (probe.fn = "parse_time" /\ probe.text \in UnresolvableTimes) =>
        ~IsClock(probe.out) /\ probe.out # Strip(Lower(probe.text))

-----------------------------------------------------------------------------
(* What the sessions hold *)

(* C31: in every session a stored date is a canonical YYYY-MM-DD date and  *)
(* a stored time is a 24-hour time with hour in 0..23 and minute in 0..59: *)
(* no turn stores a time such as 25:00.                                    *)
C31_CanonicalSlots ==
  \A sid \in DOMAIN sessions :
     LET ctx == sessions[sid].ctx
     IN /\ Present(ctx, "date") => ctx.date.canon
        /\ Present(ctx, "time") => ctx.time.h \in 0..23 /\ ctx.time.m \in 0..59

-----------------------------------------------------------------------------
(* The confirmation *)

(* the text shows the time: its hour, and its minutes unless they are :00 *)
ShowsTime(shown, time) ==
  /\ shown.h = time.h
  /\ shown.m = time.m \/ (shown.m = -1 /\ time.m = 0)

(* C32: when create_booking succeeds and the service's result holds a      *)
(* booking_reference, the response of that turn is the confirmation, shows *)
(* that reference and shows the date, the time and the party size the      *)
(* booking was made with.                                                  *)
C32_ConfirmationShowsBooking ==
  \A i \in CreateCalls :
     LET c == turn.calls[i]
     IN (c.result.success /\ c.result.booking_reference # NoRef) =>
          /\ turn.response.kind = "confirmed"
          /\ turn.response.ref = c.result.booking_reference
          /\ turn.response.echo.date = c.args.date
          /\ ShowsTime(turn.response.echo.time, c.args.time)
          /\ turn.response.echo.party_size = c.args.party_size

-----------------------------------------------------------------------------
(* C33: the message "hi" is answered with the menu of capabilities; its    *)
(* turn calls no booking service, leaves the session's step at greeting    *)
(* and leaves the session's slots as they were.                            *)
C33_GreetingStoresNothing ==
  [][(turns' = turns + 1 /\ turn'.msg = "hi") =>
       /\ turn'.response.kind = "menu"
       /\ turn'.calls = <<>>
       /\ sessions'[turn'.sid].step = "greeting"
       /\ sessions'[turn'.sid].ctx = SessionOf(turn'.sid).ctx]_vars

-----------------------------------------------------------------------------
(* The step-driven flow of agent_ollama.py *)

AskingSteps == <<"asking_name", "asking_date", "asking_time", "asking_party_size">>

(* the slot a step asks for *)
StepSlot(step) ==
  RequiredSlots[CHOOSE i \in 1..4 : AskingSteps[i] = step]

(* a turn of an existing session that the branch of the current step       *)
(* handled, after which the slot of that step is still not stored          *)
Rejected ==
  /\ impl = "ollama"
  /\ turns' = turns + 1
  /\ turn'.sid \in DOMAIN sessions
  /\ sessions[turn'.sid].step \in Range(AskingSteps)
  /\ turn'.intent = "provide_info"
  /\ ~Present(sessions'[turn'.sid].ctx, StepSlot(sessions[turn'.sid].step))

(* C34: when the answer to a slot prompt yields no valid value the turn    *)
(* stores nothing, keeps the step and asks for the same slot again; it     *)
(* does not ask for a later slot.                                          *)
C34_RejectedAsksAgain ==
  [][Rejected =>
       /\ sessions'[turn'.sid].ctx = sessions[turn'.sid].ctx
       /\ sessions'[turn'.sid].step = sessions[turn'.sid].step
       /\ turn'.response.kind = "ask_" \o StepSlot(sessions[turn'.sid].step)]_vars

-----------------------------------------------------------------------------
(* Bookings of one session *)

(* the turn's message supplied all of name, date, time and party size: the *)
(* extractor of the implementation finds the four values in it; for the    *)
(* language-model agent, the four slots were absent before the turn and    *)
(* are present after its merge                                             *)
Resupplied ==
  CASE impl = "simple" -> AllFour(simple_extract_info(Tokens(turn'.msg)))
    [] impl = "ollama" -> AllFour(ollama_extract_booking_info_from_message(Tokens(turn'.msg)))
    [] impl = "sollama" -> AllFour(sollama_extract_booking_info(Tokens(turn'.msg)))
    [] impl = "agent" ->
         \A i \in 1..4 : /\ ~Present(sessions[turn.sid].ctx, RequiredSlots[i])
                         /\ Present(turn'.merged, RequiredSlots[i])

(* C35: the turn that follows a successful create_booking in a session     *)
(* dispatches create_booking again only if its message supplied name,      *)
(* date, time and party size anew: a follow-up message alone does not book *)
(* again with the slots of the booking just made.                          *)
C35_NoDuplicateBooking ==
  [][(/\ Succeeded
      /\ turns' = turns + 1
      /\ turn'.sid = turn.sid
      /\ \E i \in 1..Len(turn'.calls) : turn'.calls[i].op = "create_booking")
     => Resupplied]_vars

-----------------------------------------------------------------------------
(* A caller who asks to book and then answers each prompt with a value for *)
(* the slot it asks for.  agent_simple.py and agent_ollama.py ask for one   *)
(* slot at a time; the caller goes on for as long as the response is such  *)
(* a prompt.                                                               *)

MaxFlowTurns == 8

Weekdays == 0..6

(* the answer to each prompt *)
AnswerTo(kind) ==
  CASE kind = "ask_name" -> "John Smith"
    [] kind = "ask_date" -> "tomorrow"
    [] kind = "ask_time" -> "7pm"
    [] kind = "ask_party_size" -> "4"

Prompts == {"ask_name", "ask_date", "ask_time", "ask_party_size"}

InitFlow ==
  /\ impl \in {"simple", "ollama"}
  /\ wd \in Weekdays
  /\ sessions = <<>>
  /\ turn = NoTurn
  /\ turns = 0
  /\ script = NoScript
  /\ client = NoClient
  /\ loop = NoLoop
  /\ memory = <<>>
  /\ store = <<>>
  /\ http = NoHttp
  /\ probe = NoProbe

(* "book a table" *)
Open ==
  /\ turn = NoTurn
  /\ Say("s1", Opener)

Answer ==
  /\ turns < MaxFlowTurns
  /\ turn.response.kind \in Prompts
  /\ Say("s1", AnswerTo(turn.response.kind))

NextFlow == Open \/ Answer

(* the caller does answer *)
SpecFlow == InitFlow /\ [][NextFlow]_vars /\ WF_vars(NextFlow)

(* create_booking has been dispatched for the session *)
Dispatched == script["s1"].created # <<>>

(* the bare number was given in answer to the prompt for the party size *)
AnsweredPartySize ==
  /\ turn.msg = "4"
  /\ Len(script["s1"].said) >= 2
  /\ script["s1"].said[Len(script["s1"].said)] = "4"

(* C36: a caller in the booking flow who answers each prompt with a value  *)
(* for the slot asked reaches the dispatch of create_booking, and the bare *)
(* number given for the party size is stored as party_size.                *)
C36_FlowReachesDispatch ==
  /\ <>Dispatched
  /\ [](AnsweredPartySize => turn.merged.party_size = 4)

-----------------------------------------------------------------------------
(* conversation_step of agent_ollama.py *)

StepChain == <<"greeting">> \o AskingSteps

(* the step of the turn's session changes from one element of the chain to *)
(* the next, or not at all                                                 *)
StepsForward ==
  LET old == SessionOf(turn'.sid).step
      new == sessions'[turn'.sid].step
  IN old # new => \E i \in 1..4 : old = StepChain[i] /\ new = StepChain[i + 1]

(* the slots asked for before the session's step are stored *)
EarlierSlotsStored ==
  \A sid \in DOMAIN sessions, i \in 2..4 :
     sessions[sid].step = AskingSteps[i] =>
        \A j \in 1..(i - 1) : Present(sessions[sid].ctx, RequiredSlots[j])

(* C37: in the step-driven agent the step moves only along greeting,       *)
(* asking_name, asking_date, asking_time, asking_party_size, one step per  *)
(* turn, and at asking_date the name is stored, at asking_time the name    *)
(* and the date, at asking_party_size the name, the date and the time.     *)
C37_StepChain ==
  /\ [][(impl = "ollama" /\ turns' = turns + 1) => StepsForward]_vars
  /\ [](impl = "ollama" => EarlierSlotsStored)

-----------------------------------------------------------------------------
(* chat of app.py on a store that holds sessions: cleanup_old_sessions     *)
(* first, then get_or_create_agent for the session the request names, then *)
(* the turn.  The store and its sessions are inputs of the handler: keys   *)
(* in the order of their insertion, each session holding the name an       *)
(* earlier turn stored.                                                    *)

MaxEvict == 101

(* the session an earlier turn left: it holds a name *)
LeftSession == [NewSession EXCEPT !.ctx.name = JohnSmith]

NoEvict == [op |-> "", sid |-> "", before |-> <<>>]

InitEvict ==
  /\ impl = "app"
  /\ wd \in {5}
  /\ turn = NoTurn
  /\ turns = 0
  /\ script = NoScript
  /\ client = NoClient
  /\ loop = NoLoop
  /\ memory = <<>>
  /\ http = NoHttp
  /\ probe = NoEvict
  /\ \E n \in 1..MaxEvict : \E k \in {0, 1} : store = StoreOf(n, k)
  /\ sessions = [key \in Keys(store) |-> LeftSession]

(* a request that names the i-th session of the store *)
ChatOn(i) ==
  /\ probe.op = ""
  /\ i \in 1..Len(store)
  /\ app_chat(store[i], "", "hi", Understanding("greeting", NoName, NoDate, NoTime, NoParty, NoRef),
              NoResult, "openai")
  /\ probe' = [op |-> "chat", sid |-> store[i], before |-> store]
  /\ turns' = turns + 1
  /\ UNCHANGED <<impl, wd, script, client, memory, loop>>

NextEvict == \E i \in {1, 2, Len(store)} : ChatOn(i)

SpecEvict == InitEvict /\ [][NextEvict]_vars

memory_clear(mem) == IF impl = "ollama" THEN <<>> ELSE mem

(* agent.clear_memory(session_id) *)
SharedClear(sid) ==
  /\ turns < MaxSharedTurns
  /\ memory' = memory_clear(memory)
  /\ sessions' = clear_memory(sessions, sid)
  /\ probe' = [op |-> "clear", sid |-> sid, before |-> sessions, prompt |-> <<>>]
  /\ turns' = turns + 1
  /\ UNCHANGED <<impl, wd, script, client, loop, store, http, turn>>

NextClear ==
  \/ NextShared
  \/ \E sid \in SharedIds \ {""} : SharedClear(sid)

SpecClear == InitShared /\ [][NextClear]_vars

ClearStep == turns' = turns + 1 /\ probe'.op = "clear"

(* the exchanges in the agent's conversation memory sent by other sessions *)
OthersExchanges(mem, sid) ==
  LET Other(e) == e.sid # sid IN SelectSeq(mem, Other)

(* C39: clear_memory(A) changes only session A: the slots and step stored  *)
(* for every other session, and the exchanges of every other session in    *)
(* the conversation memory, are after the call what they were before it.   *)
C39_ClearOnlyOwn ==
  [][ClearStep =>
       /\ \A x \in DOMAIN sessions \ {probe'.sid} :
             x \in DOMAIN sessions' /\ sessions'[x] = sessions[x]
       /\ OthersExchanges(memory', probe'.sid) = OthersExchanges(memory, probe'.sid)]_vars

(* ---------------------------------------------------------------------- *)
(* agent.py: the reference a session keeps of its last booking             *)
(* ---------------------------------------------------------------------- *)

MaxCancelTurns == 4

(* what the language model may read out of the messages of a caller who    *)
(* books, looks a booking up and cancels                                   *)
CancelOracle ==
  { Understanding("make_booking", JohnSmith, Ymd(1), HHMM(19, 0), 4, NoRef),
    Understanding("greeting", NoName, NoDate, NoTime, NoParty, NoRef),
    Understanding("check_booking", NoName, NoDate, NoTime, NoParty, "abc1234"),
    Understanding("cancel_booking", NoName, NoDate, NoTime, NoParty, "abc1234"),
    Understanding("cancel_booking", NoName, NoDate, NoTime, NoParty, NoRef) }

(* the service's answers, with a second reference for a second booking *)
CancelAnswers(calls) ==
  IF calls = <<>> THEN {NoResult}
  ELSE ServiceResults \cup
       {[success |-> TRUE, booking_reference |-> "REF0002", booking_id |-> NoRef,
         available |-> TRUE, error |-> ""]}

(* the session's bookings so far: the reference create_booking returned    *)
(* for the last one that succeeded, whether one succeeded at all, whether  *)
(* a turn since then (or since the start) named a reference, and the       *)
(* reference the last turn named                                           *)
CancelProbe == [op |-> "", booked |-> NoRef, succeeded |-> FALSE, given |-> FALSE, named |-> NoRef]

InitCancel ==
  /\ impl = "agent"
  /\ wd \in {5}
  /\ sessions = <<>>
  /\ turn = NoTurn
  /\ turns = 0
  /\ script = NoScript
  /\ client = NoClient
  /\ loop = NoLoop
  /\ memory = <<>>
  /\ store = <<>>
  /\ http = NoHttp
  /\ probe = CancelProbe

(* the create_booking call of a turn succeeded *)
Booked(calls) == calls # <<>> /\ calls[1].op = "create_booking" /\ calls[1].result.success

(* agent.process_message(message, session_id) *)
CancelTurn(sid, id, understanding) ==
  /\ turns < MaxCancelTurns
  /\ \E r \in CancelAnswers(agent_calls(sid, understanding)) :
        /\ agent_process_message(sid, id, understanding, r)
        /\ probe' = [op |-> "turn",
                     booked |-> IF Booked(turn'.calls) THEN r.booking_reference ELSE probe.booked,
                     succeeded |-> probe.succeeded \/ Booked(turn'.calls),
                     given |-> IF Booked(turn'.calls) THEN FALSE
                               ELSE probe.given \/ understanding.booking_reference # NoRef,
                     named |-> understanding.booking_reference]
  /\ turns' = turns + 1
  /\ UNCHANGED <<impl, wd, script, client, memory, loop, store, http>>

NextCancel == \E id \in AgentMessages, u \in CancelOracle : CancelTurn("s1", id, u)

SpecCancel == InitCancel /\ [][NextCancel]_vars

(* the last turn was classified cancel_booking and named no reference *)
CancelWithoutReference ==
  probe.op = "turn" /\ turn.intent = "cancel_booking" /\ probe.named = NoRef

(* the last turn called cancel_booking, once, with this reference *)
CancelDispatched(ref) ==
  /\ Len(turn.calls) = 1
  /\ turn.calls[1].op = "cancel_booking"
  /\ turn.calls[1].args = RefArgs(ref)

(* C40 as stated: after a successful booking the session retains that      *)
(* booking's reference, and every later cancel_booking turn that names no  *)
(* reference dispatches cancel_booking with exactly the reference of the   *)
(* session's most recent successful booking; when no booking has succeeded *)
(* and no turn gave a reference, no cancel is dispatched.                  *)
C40_CancelUsesLastBooking ==
  /\ probe.booked # NoRef => SessionOf("s1").ctx.last_booking_reference = probe.booked
  /\ CancelWithoutReference /\ probe.booked # NoRef => CancelDispatched(probe.booked)
  /\ CancelWithoutReference /\ ~probe.succeeded /\ ~probe.given => turn.calls = <<>>

(* C40 amended: the session retains the reference of its most recent       *)
(* successful booking, and a cancel_booking turn that names no reference,  *)
(* in a session where no turn since that booking named one, dispatches     *)
(* cancel_booking with exactly that reference; when there is no such       *)
(* reference and no turn gave one, no cancel is dispatched.                *)
C40_CancelFallsBackOnLastBooking ==
  /\ SessionOf("s1").ctx.last_booking_reference = probe.booked
  /\ CancelWithoutReference /\ ~probe.given /\ probe.booked # NoRef =>
        CancelDispatched(probe.booked)
  /\ CancelWithoutReference /\ ~probe.given /\ probe.booked = NoRef => turn.calls = <<>>

(* a second booking succeeded, and the cancel turn after it, naming no     *)
(* reference, was dispatched with the second booking's reference           *)
C40_Witness ==
  /\ CancelWithoutReference
  /\ ~probe.given
  /\ probe.booked = "REF0002"
  /\ CancelDispatched("REF0002")

====
